---------------------------- MODULE Spec2Model ----------------------------
(***************************************************************************)
(* Model of the ReinventCommunity notebooks.  Each notebook is a list of   *)
(* code cells run in document order by one kernel: the cells build a       *)
(* nested configuration dictionary, write it to disk as JSON, launch the   *)
(* external REINVENT tool with a blocking shell call, write the captured   *)
(* output to run.err, slice epoch blocks out of it with a regular          *)
(* expression and print them.                                              *)
(***************************************************************************)
EXTENDS Integers, Sequences, FiniteSets, TLC

VARIABLES nb, pc, status, exc, ns, fs, fh, tool, launches, setupRuns, out, trace

vars == <<nb, pc, status, exc, ns, fs, fh, tool, launches, setupRuns, out, trace>>

(***************************************************************************)
(* Python values.  A str is kept as the sequence of its "/"-separated      *)
(* pieces ("a/b" is <<"a", "b">>, "/a" is <<"", "a">>), so that the path   *)
(* functions can be computed; a float is kept as its shortest decimal      *)
(* literal mant * 10^exp; a dict keeps its insertion order.                *)
(***************************************************************************)
PyStr(s) == [str |-> s]
PyInt(n) == [int |-> n]
PyFloat(m, e) == [mant |-> m, exp |-> e]
PyBool(b) == [bool |-> b]
PyList(s) == [list |-> s]
PyDict(s) == [dict |-> s]
Item(k, v) == [key |-> k, val |-> v]

IsStr(v) == DOMAIN v = {"str"}
IsInt(v) == DOMAIN v = {"int"}
IsFloat(v) == DOMAIN v = {"mant", "exp"}
IsBool(v) == DOMAIN v = {"bool"}
IsList(v) == DOMAIN v = {"list"}
IsDict(v) == DOMAIN v = {"dict"}

Keys(d) == {d.dict[i].key : i \in 1..Len(d.dict)}
GetItem(d, k) == d.dict[CHOOSE i \in 1..Len(d.dict) : d.dict[i].key = k].val

\* d[k] = v : replaces the value of an existing key in place, appends a new key
SetItem(d, k, v) ==
    IF k \in Keys(d)
    THEN PyDict([i \in 1..Len(d.dict) |->
                    IF d.dict[i].key = k THEN Item(k, v) ELSE d.dict[i]])
    ELSE PyDict(Append(d.dict, Item(k, v)))

\* Python's == on the values used here, also requiring equal types
RECURSIVE PyEq(_, _)
PyEq(a, b) ==
    IF IsDict(a)
    THEN /\ IsDict(b)
         /\ Len(a.dict) = Len(b.dict)
         /\ Keys(a) = Keys(b)
         /\ \A k \in Keys(a) : PyEq(GetItem(a, k), GetItem(b, k))
    ELSE IF IsList(a)
    THEN /\ IsList(b)
         /\ Len(a.list) = Len(b.list)
         /\ \A i \in 1..Len(a.list) : PyEq(a.list[i], b.list[i])
    ELSE DOMAIN a = DOMAIN b /\ a = b

(***************************************************************************)
(* os.path                                                                 *)
(***************************************************************************)
Home == <<"", "home", "user">>
Cwd == <<"", "home", "user", "Desktop", "ReinventCommunity", "notebooks">>

\* os.path.expanduser: a leading "~" piece becomes the home directory
expanduser(p) ==
    IF Len(p) > 0 /\ p[1] = "~" THEN Home \o SubSeq(p, 2, Len(p)) ELSE p

\* os.path.join(a, b): an absolute b replaces a; otherwise one separator
\* is put between the two unless a already ends with one (or is empty)
join(a, b) ==
    IF Len(b) > 1 /\ b[1] = "" THEN b
    ELSE IF a = <<"">> THEN b
    ELSE IF Len(a) > 1 /\ a[Len(a)] = "" THEN SubSeq(a, 1, Len(a) - 1) \o b
    ELSE a \o b

dirname(p) == SubSeq(p, 1, Len(p) - 1)

(***************************************************************************)
(* json.dump / json.load.  The file content is the sequence of JSON        *)
(* tokens, white space included.                                           *)
(***************************************************************************)
Tok(t) == [tok |-> t]
StringTok(s) == [tok |-> "string", chars |-> s]
IntTok(n) == [tok |-> "int", digits |-> n]
FloatTok(m, e) == [tok |-> "float", mant |-> m, exp |-> e]
WsTok(n) == [tok |-> "ws", width |-> n]

\* the element of a one-element set; {e(x) : x \in {a}} computes a once
\* however often e uses it
Only(S) == CHOOSE x \in S : TRUE

RECURSIVE FlattenRange(_, _, _)
FlattenRange(ss, lo, hi) ==
    IF lo > hi THEN <<>>
    ELSE IF lo = hi THEN ss[lo]
    ELSE LET mid == (lo + hi) \div 2
         IN  FlattenRange(ss, lo, mid) \o FlattenRange(ss, mid + 1, hi)

Flatten(ss) == Only({FlattenRange(s, 1, Len(s)) : s \in {ss \o <<>>}})

\* the elements of the finite set S of integers, in increasing order
SortedSeq(S) ==
    Only({[i \in 1..Cardinality(T) |->
             CHOOSE x \in T : Cardinality({y \in T : y < x}) = i - 1] : T \in {S}})

\* all dictionary keys of the notebooks, in Python's str order
KeyOrder ==
    <<"-HOST",
      "GRIDFILE",
      "POSE_OUTTYPE",
      "PRECISION",
      "activity_specific_parameters",
      "agent",
      "backend",
      "batch_size",
      "component_type",
      "configuration_path",
      "delta_transformation_parameters",
      "descriptor_type",
      "diversity_filter",
      "docker_script_path",
      "docking",
      "docking_runs",
      "embedding_pools",
      "environment",
      "environment_path",
      "force_field",
      "glide_flags",
      "glide_keywords",
      "header",
      "high",
      "inception",
      "input",
      "input_pools",
      "job_id",
      "job_name",
      "k",
      "learning_rate",
      "ligand_preparation",
      "logging",
      "logging_frequency",
      "logging_path",
      "low",
      "margin_threshold",
      "memory_size",
      "minscore",
      "minsimilarity",
      "model_path",
      "n_steps",
      "name",
      "nbmax",
      "num_smiles",
      "number_cores",
      "offtarget_specific_parameters",
      "output",
      "output_smiles_path",
      "pH_tolerance",
      "parallel",
      "parallelization",
      "parameters",
      "pool_id",
      "poses",
      "poses_path",
      "prefix_execution",
      "prior",
      "radius",
      "recipient",
      "reinforcement_learning",
      "reset",
      "reset_score_cutoff",
      "result_folder",
      "run_id",
      "run_type",
      "sample_size",
      "scikit",
      "scores",
      "scores_path",
      "scoring_function",
      "sender",
      "sigma",
      "size",
      "smiles",
      "specific_parameters",
      "standardize_smiles",
      "target_pH",
      "transformation",
      "transformation_type",
      "type",
      "use_counts",
      "use_epik",
      "use_features",
      "version",
      "weight",
      "with_likelihood">>

\* rank of a key in Python's str ordering
KeyRank(k) == CHOOSE i \in 1..Len(KeyOrder) : KeyOrder[i] = k

\* the items of d in the order json.dump writes them
DumpOrder(d, sort_keys) ==
    IF sort_keys
    THEN Only({[i \in 1..Len(ranks) |->
                   Item(KeyOrder[ranks[i]], GetItem(d, KeyOrder[ranks[i]]))] :
                ranks \in {SortedSeq({KeyRank(k) : k \in Keys(d)})}})
    ELSE d.dict

\* newline and indentation written before an item at nesting level
Newline(indent, level) == <<WsTok(indent * level)>>

\* variant: a bool is written as Python's str() of it, quoted
BoolTokStr(b) == IF b THEN StringTok(<<"True">>) ELSE StringTok(<<"False">>)

BoolTok(b) == IF b THEN Tok("true") ELSE Tok("false")

RECURSIVE Encode(_, _, _, _)
Encode(v, indent, sort_keys, level) ==
    IF IsBool(v) THEN <<BoolTok(v.bool)>>
    ELSE IF IsInt(v) THEN <<IntTok(v.int)>>
    ELSE IF IsFloat(v) THEN <<FloatTok(v.mant, v.exp)>>
    ELSE IF IsStr(v) THEN <<StringTok(v.str)>>
    ELSE IF IsList(v) THEN
        IF v.list = <<>> THEN <<Tok("["), Tok("]")>>
        ELSE LET n == Len(v.list)
                 parts == [i \in 1..n |->
                             Newline(indent, level + 1)
                             \o Encode(v.list[i], indent, sort_keys, level + 1)
                             \o (IF i < n THEN <<Tok(",")>> ELSE <<>>)]
             IN  <<Tok("[")>> \o Flatten(parts) \o Newline(indent, level) \o <<Tok("]")>>
    ELSE
        IF v.dict = <<>> THEN <<Tok("{"), Tok("}")>>
        ELSE Only({<<Tok("{")>>
                   \o Flatten([i \in 1..Len(items) |->
                                 Newline(indent, level + 1)
                                 \o <<StringTok(<<items[i].key>>), Tok(":")>>
                                 \o Encode(items[i].val, indent, sort_keys, level + 1)
                                 \o (IF i < Len(items) THEN <<Tok(",")>> ELSE <<>>)])
                   \o Newline(indent, level) \o <<Tok("}")>> :
                      items \in {DumpOrder(v, sort_keys)}})

\* json.dump(obj, f, indent=indent, sort_keys=sort_keys): the text written
dump(obj, indent, sort_keys) == Encode(obj, indent, sort_keys, 0)

IsWs(t) == t.tok = "ws"
IsOpen(t) == t.tok \in {"[", "{"}
IsClose(t) == t.tok \in {"]", "}"}

\* nesting depth in front of each token of toks[lo..hi], base in front of lo
RECURSIVE DepthRange(_, _, _, _)
DepthRange(toks, lo, hi, base) ==
    IF lo > hi THEN <<>>
    ELSE IF lo = hi THEN <<base>>
    ELSE LET mid == (lo + hi) \div 2
             left == DepthRange(toks, lo, mid, base)
             after == left[Len(left)]
                        + (IF IsOpen(toks[mid]) THEN 1 ELSE 0)
                        - (IF IsClose(toks[mid]) THEN 1 ELSE 0)
         IN  left \o DepthRange(toks, mid + 1, hi, after)

Depths(toks) == DepthRange(toks, 1, Len(toks), 0)

DepthAfter(toks, depth, i) ==
    depth[i] + (IF IsOpen(toks[i]) THEN 1 ELSE 0) - (IF IsClose(toks[i]) THEN 1 ELSE 0)

\* the text is one complete JSON value: brackets balance and close only at the end
WellFormed(toks) ==
    /\ toks # <<>>
    /\ LET depth == Depths(toks)
           n == Len(toks)
       IN  /\ DepthAfter(toks, depth, n) = 0
           /\ \A i \in 1..(n - 1) : IsOpen(toks[1]) => DepthAfter(toks, depth, i) > 0
           /\ ~IsOpen(toks[1]) => n = 1

\* positions of the commas that separate the items of the container opened at lo
Commas(toks, depth, lo, hi) ==
    {i \in (lo + 1)..(hi - 1) : toks[i].tok = "," /\ depth[i] = depth[lo] + 1}

\* the token ranges of the items of the container toks[lo..hi]
ItemRanges(toks, depth, lo, hi) ==
    IF hi = lo + 1 THEN <<>>
    ELSE LET cs == SortedSeq(Commas(toks, depth, lo, hi))
             n == Len(cs)
         IN  [j \in 1..(n + 1) |->
                [from |-> IF j = 1 THEN lo + 1 ELSE cs[j - 1] + 1,
                 to |-> IF j = n + 1 THEN hi - 1 ELSE cs[j] - 1]]

RECURSIVE Decode(_, _, _, _)
Decode(toks, depth, lo, hi) ==
    LET t == toks[lo]
    IN  IF t.tok = "true" THEN PyBool(TRUE)
        ELSE IF t.tok = "false" THEN PyBool(FALSE)
        ELSE IF t.tok = "int" THEN PyInt(t.digits)
        ELSE IF t.tok = "float" THEN PyFloat(t.mant, t.exp)
        ELSE IF t.tok = "string" THEN PyStr(t.chars)
        ELSE LET rs == ItemRanges(toks, depth, lo, hi)
             IN  IF t.tok = "["
                 THEN PyList([j \in 1..Len(rs) |-> Decode(toks, depth, rs[j].from, rs[j].to)])
                 ELSE PyDict([j \in 1..Len(rs) |->
                                Item(toks[rs[j].from].chars[1],
                                     Decode(toks, depth, rs[j].from + 2, rs[j].to))])

\* json.load(f): white space is skipped; a text that is not one complete
\* JSON value raises JSONDecodeError
load(text) ==
    LET toks == SelectSeq(text, LAMBDA t : ~IsWs(t))
    IN  IF WellFormed(toks)
        THEN [ok |-> TRUE, value |-> Decode(toks, Depths(toks), 1, Len(toks))]
        ELSE [ok |-> FALSE, value |-> PyDict(<<>>)]

(***************************************************************************)
(* The kernel: a namespace ns (variable name -> value), the file system    *)
(* and the exception raised so far by the cell being run ("" for none).    *)
(***************************************************************************)
Bind(f, k, v) == (k :> v) @@ f

\* name = value, skipped once an exception is propagating
Assign(m, name, v) ==
    Only({IF k.exc # "" THEN k ELSE [k EXCEPT !.ns = Bind(k.ns, name, v)] : k \in {m}})

os_path_join(a, b) == PyStr(join(a.str, b.str))
os_path_expanduser(a) == PyStr(expanduser(a.str))
os_getcwd == PyStr(Cwd)

IsDir(f, p) == p \in f.dirs
IsFile(f, p) == p \in DOMAIN f.files

\* os.mkdir(p): the new file system and the exception raised
mkdir(f, p) ==
    IF IsDir(f, p) \/ IsFile(f, p) THEN [fs |-> f, exc |-> "FileExistsError"]
    ELSE IF IsFile(f, dirname(p)) THEN [fs |-> f, exc |-> "NotADirectoryError"]
    ELSE IF ~IsDir(f, dirname(p)) THEN [fs |-> f, exc |-> "FileNotFoundError"]
    ELSE IF dirname(p) \in f.readonly THEN [fs |-> f, exc |-> "PermissionError"]
    ELSE [fs |-> [f EXCEPT !.dirs = @ \cup {p}], exc |-> ""]

\* try: name  except NameError: name = v
TryName(m, name, v) ==
    Only({IF name \in DOMAIN k.ns THEN k ELSE Assign(k, name, v) : k \in {m}})

\* variant: os.mkdir(p) without the try block
TryMkdirUncaught(m, name) ==
    Only({IF k.exc # "" THEN k
          ELSE Only({[k EXCEPT !.fs = r.fs, !.exc = r.exc] :
                        r \in {mkdir(k.fs, k.ns[name].str)}}) : k \in {m}})

\* try: os.mkdir(name)  except FileExistsError: pass
TryMkdir(m, name) ==
    Only({IF k.exc # "" THEN k
          ELSE Only({IF r.exc = "FileExistsError" THEN k
                     ELSE [k EXCEPT !.fs = r.fs, !.exc = r.exc] :
                        r \in {mkdir(k.fs, k.ns[name].str)}}) : k \in {m}})

\* open(p, 'w'): creates or truncates the file
open_w(f, p) ==
    IF IsDir(f, p) THEN [fs |-> f, exc |-> "IsADirectoryError"]
    ELSE IF IsFile(f, dirname(p)) THEN [fs |-> f, exc |-> "NotADirectoryError"]
    ELSE IF ~IsDir(f, dirname(p)) THEN [fs |-> f, exc |-> "FileNotFoundError"]
    ELSE IF dirname(p) \in f.readonly THEN [fs |-> f, exc |-> "PermissionError"]
    ELSE [fs |-> [f EXCEPT !.files = Bind(@, p, <<>>)], exc |-> ""]

\* f.write(text) on the file opened at p
write(f, p, text) == [f EXCEPT !.files = Bind(@, p, f.files[p] \o text)]

(***************************************************************************)
(* The code cells of the notebooks, statement by statement.                *)
(***************************************************************************)
\* ---- Sampling notebook (src/notebooks/Sampling_Demo.ipynb) ----

Sampling_In1(m) ==
    LET m1 == Assign(m, "reinvent_dir",
            os_path_expanduser(PyStr(<<"~", "Desktop", "Reinvent">>)))
        m2 == Assign(m1, "reinvent_env",
            os_path_expanduser(PyStr(<<"~", "miniconda3", "envs", "reinvent.v3.0">>)))
        m3 == Assign(m2, "output_dir",
            os_path_expanduser(PyStr(<<"~", "Desktop", "REINVENT_sampling_demo">>)))
        m4 == TryName(m3, "ipynb_path", os_getcwd)
        m5 == TryMkdir(m4, "output_dir")
    IN  m5

Sampling_In2(m) ==
    Assign(m, "configuration",
        PyDict(<<
            Item("version", PyInt(3)),
            Item("run_type", PyStr(<<"sampling">>))>>))

Sampling_In3(m) ==
    Assign(m, "configuration",
        SetItem(m.ns["configuration"], "logging", PyDict(<<
            Item("sender", PyStr(<<"http:", "", "127.0.0.1">>)),
            Item("recipient", PyStr(<<"local">>)),
            Item("logging_path", os_path_join(m.ns["output_dir"], PyStr(<<"progress.log">>))),
            Item("job_name", PyStr(<<"Scoring mode demo">>)),
            Item("job_id", PyStr(<<"demo">>))>>)))

Sampling_In4_1(m) ==
    Assign(m, "output_SMILES_path",
        os_path_join(os_path_join(m.ns["output_dir"], PyStr(<<"sampled">>)), PyStr(<<"sampled.smi">>)))

\* variant: the parameters block carries an (empty) scoring function, as in
\* the notebooks it was copied from
Sampling_In4_2WithScoring(m) ==
    Assign(m, "configuration",
        SetItem(m.ns["configuration"], "parameters", PyDict(<<
            Item("model_path", os_path_join(os_path_join(m.ns["ipynb_path"], PyStr(<<"models">>)), PyStr(<<"random.prior.new">>))),
            Item("output_smiles_path", m.ns["output_SMILES_path"]),
            Item("num_smiles", PyInt(1024)),
            Item("batch_size", PyInt(128)),
            Item("with_likelihood", PyBool(FALSE)),
            Item("scoring_function", PyDict(<<>>))>>)))

Sampling_In4_2(m) ==
    Assign(m, "configuration",
        SetItem(m.ns["configuration"], "parameters", PyDict(<<
            Item("model_path", os_path_join(os_path_join(m.ns["ipynb_path"], PyStr(<<"models">>)), PyStr(<<"random.prior.new">>))),
            Item("output_smiles_path", m.ns["output_SMILES_path"]),
            Item("num_smiles", PyInt(1024)),
            Item("batch_size", PyInt(128)),
            Item("with_likelihood", PyBool(FALSE))>>)))

Sampling_In4(m) ==
    Sampling_In4_2(Sampling_In4_1(m))

Sampling_In5(m) ==
    Assign(m, "configuration_JSON_path",
        os_path_join(m.ns["output_dir"], PyStr(<<"sampling_config.json">>)))

Sampling_cells ==
    <<[kind |-> "setup"],
      [kind |-> "assign"],
      [kind |-> "assign"],
      [kind |-> "assign"],
      [kind |-> "write", path |-> "configuration_JSON_path", obj |-> "configuration", indent |-> 4, sort_keys |-> TRUE],
      [kind |-> "run"],
      [kind |-> "post", parse |-> FALSE, filter |-> FALSE, indices |-> {}],
      [kind |-> "head", count |-> 15, file |-> <<"sampled", "sampled.smi">>]>>

\* ---- Exploration notebook (src/notebooks/Reinforcement_Learning_Exploration_Demo.ipynb) ----

Exploration_In1(m) ==
    LET m1 == Assign(m, "reinvent_dir",
            os_path_expanduser(PyStr(<<"~", "Desktop", "Reinvent">>)))
        m2 == Assign(m1, "reinvent_env",
            os_path_expanduser(PyStr(<<"~", "miniconda3", "envs", "reinvent.v3.0">>)))
        m3 == Assign(m2, "output_dir",
            os_path_expanduser(PyStr(<<"~", "Desktop", "REINVENT_RL_Exploration_demo">>)))
        m4 == TryName(m3, "ipynb_path", os_getcwd)
        m5 == TryMkdir(m4, "output_dir")
    IN  m5

Exploration_In2(m) ==
    Assign(m, "configuration",
        PyDict(<<
            Item("version", PyInt(3)),
            Item("run_type", PyStr(<<"reinforcement_learning">>))>>))

Exploration_In3(m) ==
    Assign(m, "configuration",
        SetItem(m.ns["configuration"], "logging", PyDict(<<
            Item("sender", PyStr(<<"http:", "", "0.0.0.1">>)),
            Item("recipient", PyStr(<<"local">>)),
            Item("logging_frequency", PyInt(10)),
            Item("logging_path", os_path_join(m.ns["output_dir"], PyStr(<<"progress.log">>))),
            Item("result_folder", os_path_join(m.ns["output_dir"], PyStr(<<"results">>))),
            Item("job_name", PyStr(<<"Reinforcement learning demo">>)),
            Item("job_id", PyStr(<<"demo">>))>>)))

Exploration_In4(m) ==
    Assign(m, "configuration",
        SetItem(m.ns["configuration"], "parameters", PyDict(<<>>)))

Exploration_In5(m) ==
    Assign(m, "configuration",
        SetItem(m.ns["configuration"], "parameters", SetItem(GetItem(m.ns["configuration"], "parameters"), "diversity_filter", PyDict(<<
            Item("name", PyStr(<<"IdenticalMurckoScaffold">>)),
            Item("nbmax", PyInt(25)),
            Item("minscore", PyFloat(4, -1)),
            Item("minsimilarity", PyFloat(4, -1))>>))))

Exploration_In6(m) ==
    Assign(m, "configuration",
        SetItem(m.ns["configuration"], "parameters", SetItem(GetItem(m.ns["configuration"], "parameters"), "inception", PyDict(<<
            Item("smiles", PyList(<<>>)),
            Item("memory_size", PyInt(100)),
            Item("sample_size", PyInt(10))>>))))

Exploration_In7(m) ==
    Assign(m, "configuration",
        SetItem(m.ns["configuration"], "parameters", SetItem(GetItem(m.ns["configuration"], "parameters"), "reinforcement_learning", PyDict(<<
            Item("prior", os_path_join(m.ns["ipynb_path"], PyStr(<<"models", "random.prior.new">>))),
            Item("agent", os_path_join(m.ns["ipynb_path"], PyStr(<<"models", "random.prior.new">>))),
            Item("n_steps", PyInt(1000)),
            Item("sigma", PyInt(128)),
            Item("learning_rate", PyFloat(1, -4)),
            Item("batch_size", PyInt(128)),
            Item("reset", PyInt(0)),
            Item("reset_score_cutoff", PyFloat(5, -1)),
            Item("margin_threshold", PyInt(50))>>))))

\* variant: the QED component is given the weight of the activity model
Exploration_In8_1EqualWeights(m) ==
    Assign(m, "scoring_function",
        PyDict(<<
            Item("name", PyStr(<<"custom_product">>)),
            Item("parallel", PyBool(FALSE)),
            Item("parameters", PyList(<<
                PyDict(<<
                    Item("component_type", PyStr(<<"predictive_property">>)),
                    Item("name", PyStr(<<"Aurora kinase">>)),
                    Item("weight", PyInt(6)),
                    Item("specific_parameters", PyDict(<<
                        Item("model_path", os_path_join(m.ns["ipynb_path"], PyStr(<<"models", "Aurora_model.pkl">>))),
                        Item("transformation", PyDict(<<
                            Item("transformation_type", PyStr(<<"sigmoid">>)),
                            Item("high", PyInt(9)),
                            Item("low", PyInt(4)),
                            Item("k", PyFloat(25, -2))>>)),
                        Item("scikit", PyStr(<<"regression">>)),
                        Item("descriptor_type", PyStr(<<"ecfp_counts">>)),
                        Item("size", PyInt(2048)),
                        Item("radius", PyInt(3)),
                        Item("use_counts", PyBool(TRUE)),
                        Item("use_features", PyBool(TRUE))>>))>>),
                PyDict(<<
                    Item("component_type", PyStr(<<"qed_score">>)),
                    Item("name", PyStr(<<"QED">>)),
                    Item("weight", PyInt(6))>>),
                PyDict(<<
                    Item("component_type", PyStr(<<"custom_alerts">>)),
                    Item("name", PyStr(<<"Custom alerts">>)),
                    Item("weight", PyInt(1)),
                    Item("specific_parameters", PyDict(<<
                        Item("smiles", PyList(<<
                            PyStr(<<"[*;r8]">>),
                            PyStr(<<"[*;r9]">>),
                            PyStr(<<"[*;r10]">>),
                            PyStr(<<"[*;r11]">>),
                            PyStr(<<"[*;r12]">>),
                            PyStr(<<"[*;r13]">>),
                            PyStr(<<"[*;r14]">>),
                            PyStr(<<"[*;r15]">>),
                            PyStr(<<"[*;r16]">>),
                            PyStr(<<"[*;r17]">>),
                            PyStr(<<"[#8][#8]">>),
                            PyStr(<<"[#6;+]">>),
                            PyStr(<<"[#16][#16]">>),
                            PyStr(<<"[#7;!n][S;!$(S(=O)=O)]">>),
                            PyStr(<<"[#7;!n][#7;!n]">>),
                            PyStr(<<"C#C">>),
                            PyStr(<<"C(=[O,S])[O,S]">>),
                            PyStr(<<"[#7;!n][C;!$(C(=[O,N])[N,O])][#16;!s]">>),
                            PyStr(<<"[#7;!n][C;!$(C(=[O,N])[N,O])][#7;!n]">>),
                            PyStr(<<"[#7;!n][C;!$(C(=[O,N])[N,O])][#8;!o]">>),
                            PyStr(<<"[#8;!o][C;!$(C(=[O,N])[N,O])][#16;!s]">>),
                            PyStr(<<"[#8;!o][C;!$(C(=[O,N])[N,O])][#8;!o]">>),
                            PyStr(<<"[#16;!s][C;!$(C(=[O,N])[N,O])][#16;!s]">>)>>))>>))>>)>>))>>))

Exploration_In8_1(m) ==
    Assign(m, "scoring_function",
        PyDict(<<
            Item("name", PyStr(<<"custom_product">>)),
            Item("parallel", PyBool(FALSE)),
            Item("parameters", PyList(<<
                PyDict(<<
                    Item("component_type", PyStr(<<"predictive_property">>)),
                    Item("name", PyStr(<<"Aurora kinase">>)),
                    Item("weight", PyInt(6)),
                    Item("specific_parameters", PyDict(<<
                        Item("model_path", os_path_join(m.ns["ipynb_path"], PyStr(<<"models", "Aurora_model.pkl">>))),
                        Item("transformation", PyDict(<<
                            Item("transformation_type", PyStr(<<"sigmoid">>)),
                            Item("high", PyInt(9)),
                            Item("low", PyInt(4)),
                            Item("k", PyFloat(25, -2))>>)),
                        Item("scikit", PyStr(<<"regression">>)),
                        Item("descriptor_type", PyStr(<<"ecfp_counts">>)),
                        Item("size", PyInt(2048)),
                        Item("radius", PyInt(3)),
                        Item("use_counts", PyBool(TRUE)),
                        Item("use_features", PyBool(TRUE))>>))>>),
                PyDict(<<
                    Item("component_type", PyStr(<<"qed_score">>)),
                    Item("name", PyStr(<<"QED">>)),
                    Item("weight", PyInt(2))>>),
                PyDict(<<
                    Item("component_type", PyStr(<<"custom_alerts">>)),
                    Item("name", PyStr(<<"Custom alerts">>)),
                    Item("weight", PyInt(1)),
                    Item("specific_parameters", PyDict(<<
                        Item("smiles", PyList(<<
                            PyStr(<<"[*;r8]">>),
                            PyStr(<<"[*;r9]">>),
                            PyStr(<<"[*;r10]">>),
                            PyStr(<<"[*;r11]">>),
                            PyStr(<<"[*;r12]">>),
                            PyStr(<<"[*;r13]">>),
                            PyStr(<<"[*;r14]">>),
                            PyStr(<<"[*;r15]">>),
                            PyStr(<<"[*;r16]">>),
                            PyStr(<<"[*;r17]">>),
                            PyStr(<<"[#8][#8]">>),
                            PyStr(<<"[#6;+]">>),
                            PyStr(<<"[#16][#16]">>),
                            PyStr(<<"[#7;!n][S;!$(S(=O)=O)]">>),
                            PyStr(<<"[#7;!n][#7;!n]">>),
                            PyStr(<<"C#C">>),
                            PyStr(<<"C(=[O,S])[O,S]">>),
                            PyStr(<<"[#7;!n][C;!$(C(=[O,N])[N,O])][#16;!s]">>),
                            PyStr(<<"[#7;!n][C;!$(C(=[O,N])[N,O])][#7;!n]">>),
                            PyStr(<<"[#7;!n][C;!$(C(=[O,N])[N,O])][#8;!o]">>),
                            PyStr(<<"[#8;!o][C;!$(C(=[O,N])[N,O])][#16;!s]">>),
                            PyStr(<<"[#8;!o][C;!$(C(=[O,N])[N,O])][#8;!o]">>),
                            PyStr(<<"[#16;!s][C;!$(C(=[O,N])[N,O])][#16;!s]">>)>>))>>))>>)>>))>>))

Exploration_In8_2(m) ==
    Assign(m, "configuration",
        SetItem(m.ns["configuration"], "parameters", SetItem(GetItem(m.ns["configuration"], "parameters"), "scoring_function", m.ns["scoring_function"])))

Exploration_In8(m) ==
    Exploration_In8_2(Exploration_In8_1(m))

Exploration_In9(m) ==
    Assign(m, "configuration_JSON_path",
        os_path_join(m.ns["output_dir"], PyStr(<<"RL_config.json">>)))

Exploration_cells ==
    <<[kind |-> "setup"],
      [kind |-> "assign"],
      [kind |-> "assign"],
      [kind |-> "assign"],
      [kind |-> "assign"],
      [kind |-> "assign"],
      [kind |-> "assign"],
      [kind |-> "assign"],
      [kind |-> "write", path |-> "configuration_JSON_path", obj |-> "configuration", indent |-> 4, sort_keys |-> TRUE],
      [kind |-> "run"],
      [kind |-> "post", parse |-> TRUE, filter |-> TRUE, indices |-> {1, 75, 124}],
      [kind |-> "print"],
      [kind |-> "head", count |-> 15, file |-> <<"results", "memory.csv">>]>>

\* ---- Selectivity notebook (src/notebooks/Reinforcement_Learning_Demo_Selectivity.ipynb) ----

Selectivity_In1(m) ==
    LET m1 == Assign(m, "reinvent_dir",
            os_path_expanduser(PyStr(<<"~", "Desktop", "Reinvent">>)))
        m2 == Assign(m1, "reinvent_env",
            os_path_expanduser(PyStr(<<"~", "miniconda3", "envs", "reinvent.v3.0">>)))
        m3 == Assign(m2, "output_dir",
            os_path_expanduser(PyStr(<<"~", "Desktop", "REINVENT_RL_Selectivity_demo">>)))
        m4 == TryName(m3, "ipynb_path", os_getcwd)
        m5 == TryMkdir(m4, "output_dir")
    IN  m5

Selectivity_In2(m) ==
    Assign(m, "configuration",
        PyDict(<<
            Item("version", PyInt(3)),
            Item("run_type", PyStr(<<"reinforcement_learning">>))>>))

Selectivity_In3(m) ==
    Assign(m, "configuration",
        SetItem(m.ns["configuration"], "logging", PyDict(<<
            Item("sender", PyStr(<<"http:", "", "0.0.0.1">>)),
            Item("recipient", PyStr(<<"local">>)),
            Item("logging_frequency", PyInt(10)),
            Item("logging_path", os_path_join(m.ns["output_dir"], PyStr(<<"progress.log">>))),
            Item("result_folder", os_path_join(m.ns["output_dir"], PyStr(<<"results">>))),
            Item("job_name", PyStr(<<"Reinforcement learning demo">>)),
            Item("job_id", PyStr(<<"demo">>))>>)))

Selectivity_In4(m) ==
    Assign(m, "configuration",
        SetItem(m.ns["configuration"], "parameters", PyDict(<<>>)))

Selectivity_In5(m) ==
    Assign(m, "configuration",
        SetItem(m.ns["configuration"], "parameters", SetItem(GetItem(m.ns["configuration"], "parameters"), "diversity_filter", PyDict(<<
            Item("name", PyStr(<<"IdenticalMurckoScaffold">>)),
            Item("nbmax", PyInt(25)),
            Item("minscore", PyFloat(4, -1)),
            Item("minsimilarity", PyFloat(4, -1))>>))))

Selectivity_In6(m) ==
    Assign(m, "configuration",
        SetItem(m.ns["configuration"], "parameters", SetItem(GetItem(m.ns["configuration"], "parameters"), "inception", PyDict(<<
            Item("smiles", PyList(<<>>)),
            Item("memory_size", PyInt(100)),
            Item("sample_size", PyInt(10))>>))))

Selectivity_In7(m) ==
    Assign(m, "configuration",
        SetItem(m.ns["configuration"], "parameters", SetItem(GetItem(m.ns["configuration"], "parameters"), "reinforcement_learning", PyDict(<<
            Item("prior", os_path_join(m.ns["ipynb_path"], PyStr(<<"models", "random.prior.new">>))),
            Item("agent", os_path_join(m.ns["ipynb_path"], PyStr(<<"models", "random.prior.new">>))),
            Item("n_steps", PyInt(1000)),
            Item("sigma", PyInt(128)),
            Item("learning_rate", PyFloat(1, -4)),
            Item("batch_size", PyInt(128)),
            Item("reset", PyInt(0)),
            Item("reset_score_cutoff", PyFloat(5, -1)),
            Item("margin_threshold", PyInt(50))>>))))

Selectivity_In8_1(m) ==
    Assign(m, "scoring_function",
        PyDict(<<
            Item("name", PyStr(<<"custom_product">>)),
            Item("parallel", PyBool(FALSE)),
            Item("parameters", PyList(<<
                PyDict(<<
                    Item("component_type", PyStr(<<"predictive_property">>)),
                    Item("name", PyStr(<<"Aurora kinase">>)),
                    Item("weight", PyInt(6)),
                    Item("specific_parameters", PyDict(<<
                        Item("model_path", os_path_join(m.ns["ipynb_path"], PyStr(<<"models", "Aurora_model.pkl">>))),
                        Item("transformation", PyDict(<<
                            Item("transformation_type", PyStr(<<"sigmoid">>)),
                            Item("high", PyInt(9)),
                            Item("low", PyInt(4)),
                            Item("k", PyFloat(25, -2))>>)),
                        Item("scikit", PyStr(<<"regression">>)),
                        Item("descriptor_type", PyStr(<<"ecfp_counts">>)),
                        Item("size", PyInt(2048)),
                        Item("radius", PyInt(3)),
                        Item("use_counts", PyBool(TRUE)),
                        Item("use_features", PyBool(TRUE))>>))>>),
                PyDict(<<
                    Item("component_type", PyStr(<<"matching_substructure">>)),
                    Item("name", PyStr(<<"Matching substructure">>)),
                    Item("weight", PyInt(1)),
                    Item("specific_parameters", PyDict(<<
                        Item("smiles", PyList(<<
                            PyStr(<<"c1ccccc1CC">>)>>))>>))>>),
                PyDict(<<
                    Item("component_type", PyStr(<<"custom_alerts">>)),
                    Item("name", PyStr(<<"Custom alerts">>)),
                    Item("weight", PyInt(1)),
                    Item("specific_parameters", PyDict(<<
                        Item("smiles", PyList(<<
                            PyStr(<<"[*;r8]">>),
                            PyStr(<<"[*;r9]">>),
                            PyStr(<<"[*;r10]">>),
                            PyStr(<<"[*;r11]">>),
                            PyStr(<<"[*;r12]">>),
                            PyStr(<<"[*;r13]">>),
                            PyStr(<<"[*;r14]">>),
                            PyStr(<<"[*;r15]">>),
                            PyStr(<<"[*;r16]">>),
                            PyStr(<<"[*;r17]">>),
                            PyStr(<<"[#8][#8]">>),
                            PyStr(<<"[#6;+]">>),
                            PyStr(<<"[#16][#16]">>),
                            PyStr(<<"[#7;!n][S;!$(S(=O)=O)]">>),
                            PyStr(<<"[#7;!n][#7;!n]">>),
                            PyStr(<<"C#C">>),
                            PyStr(<<"C(=[O,S])[O,S]">>),
                            PyStr(<<"[#7;!n][C;!$(C(=[O,N])[N,O])][#16;!s]">>),
                            PyStr(<<"[#7;!n][C;!$(C(=[O,N])[N,O])][#7;!n]">>),
                            PyStr(<<"[#7;!n][C;!$(C(=[O,N])[N,O])][#8;!o]">>),
                            PyStr(<<"[#8;!o][C;!$(C(=[O,N])[N,O])][#16;!s]">>),
                            PyStr(<<"[#8;!o][C;!$(C(=[O,N])[N,O])][#8;!o]">>),
                            PyStr(<<"[#16;!s][C;!$(C(=[O,N])[N,O])][#16;!s]">>)>>))>>))>>),
                PyDict(<<
                    Item("component_type", PyStr(<<"selectivity">>)),
                    Item("name", PyStr(<<"B-RAF selectivity">>)),
                    Item("weight", PyInt(3)),
                    Item("specific_parameters", PyDict(<<
                        Item("activity_specific_parameters", PyDict(<<
                            Item("model_path", os_path_join(m.ns["ipynb_path"], PyStr(<<"models", "Aurora_model.pkl">>))),
                            Item("scikit", PyStr(<<"regression">>)),
                            Item("descriptor_type", PyStr(<<"ecfp_counts">>)),
                            Item("size", PyInt(2048)),
                            Item("radius", PyInt(3)),
                            Item("use_counts", PyBool(TRUE)),
                            Item("use_features", PyBool(TRUE))>>)),
                        Item("offtarget_specific_parameters", PyDict(<<
                            Item("model_path", os_path_join(m.ns["ipynb_path"], PyStr(<<"models", "B-RAF_model.pkl">>))),
                            Item("scikit", PyStr(<<"regression">>)),
                            Item("descriptor_type", PyStr(<<"ecfp_counts">>)),
                            Item("size", PyInt(2048)),
                            Item("radius", PyInt(3)),
                            Item("use_counts", PyBool(TRUE)),
                            Item("use_features", PyBool(TRUE))>>)),
                        Item("delta_transformation_parameters", PyDict(<<
                            Item("transformation_type", PyStr(<<"sigmoid">>)),
                            Item("high", PyInt(3)),
                            Item("k", PyFloat(25, -2)),
                            Item("low", PyInt(0))>>))>>))>>)>>))>>))

Selectivity_In8_2(m) ==
    Assign(m, "configuration",
        SetItem(m.ns["configuration"], "parameters", SetItem(GetItem(m.ns["configuration"], "parameters"), "scoring_function", m.ns["scoring_function"])))

Selectivity_In8(m) ==
    Selectivity_In8_2(Selectivity_In8_1(m))

Selectivity_In9(m) ==
    Assign(m, "configuration_JSON_path",
        os_path_join(m.ns["output_dir"], PyStr(<<"RL_config.json">>)))

Selectivity_cells ==
    <<[kind |-> "setup"],
      [kind |-> "assign"],
      [kind |-> "assign"],
      [kind |-> "assign"],
      [kind |-> "assign"],
      [kind |-> "assign"],
      [kind |-> "assign"],
      [kind |-> "assign"],
      [kind |-> "write", path |-> "configuration_JSON_path", obj |-> "configuration", indent |-> 4, sort_keys |-> TRUE],
      [kind |-> "run"],
      [kind |-> "post", parse |-> TRUE, filter |-> TRUE, indices |-> {1, 75, 124}],
      [kind |-> "print"],
      [kind |-> "head", count |-> 15, file |-> <<"results", "memory.csv">>]>>

\* ---- DRD2 notebook (src/unnamed/part_000) ----

DRD2_In1(m) ==
    LET m1 == Assign(m, "reinvent_dir",
            os_path_expanduser(PyStr(<<"~", "Desktop", "Reinvent">>)))
        m2 == Assign(m1, "reinvent_env",
            os_path_expanduser(PyStr(<<"~", "miniconda3", "envs", "reinvent.v3.0">>)))
        m3 == Assign(m2, "output_dir",
            os_path_expanduser(PyStr(<<"~", "Desktop", "REINVENT_Use-Case-DRD2_demo">>)))
        m4 == TryName(m3, "ipynb_path", os_getcwd)
        m5 == TryMkdir(m4, "output_dir")
    IN  m5

DRD2_In2(m) ==
    Assign(m, "component_DRD2_prediction",
        PyDict(<<
            Item("component_type", PyStr(<<"predictive_property">>)),
            Item("name", PyStr(<<"DRD2_pred_activity">>)),
            Item("weight", PyInt(7)),
            Item("specific_parameters", PyDict(<<
                Item("model_path", os_path_join(m.ns["ipynb_path"], PyStr(<<"models", "drd2.pkl">>))),
                Item("scikit", PyStr(<<"classification">>)),
                Item("descriptor_type", PyStr(<<"ecfp_counts">>)),
                Item("size", PyInt(2048)),
                Item("radius", PyInt(3)),
                Item("use_counts", PyBool(TRUE)),
                Item("use_features", PyBool(TRUE)),
                Item("transformation", PyDict(<<
                    Item("transformation_type", PyStr(<<"no_transformation">>))>>))>>))>>))

DRD2_In3(m) ==
    Assign(m, "diversity_filter",
        PyDict(<<
            Item("name", PyStr(<<"IdenticalMurckoScaffold">>)),
            Item("nbmax", PyInt(25)),
            Item("minscore", PyFloat(4, -1)),
            Item("minsimilarity", PyFloat(4, -1))>>))

DRD2_In4(m) ==
    Assign(m, "inception",
        PyDict(<<
            Item("memory_size", PyInt(20)),
            Item("sample_size", PyInt(5)),
            Item("smiles", PyList(<<
                PyStr(<<"OCCN1CCN(CCCN2c3ccccc3Sc3ccc(Cl)cc32)CC1">>),
                PyStr(<<"C=CCN1CCC2c3cccc(OC)c3CCC21">>),
                PyStr(<<"CCCN(Cc1ccc(OC)cc1)C1CCc2c(cccc2OC)C1">>),
                PyStr(<<"N#Cc1ccc2[nH]c(CN3CCN(c4ccc(Cl)c(Cl)c4)CC3)cc2c1">>),
                PyStr(<<"O=C(CCCN1CCN(c2ncccn2)CC1)c1ccc(F)cc1">>),
                PyStr(<<"Cc1ccc2c(c1)C(N1CCN(C)CC1)=Nc1cccnc1N2">>),
                PyStr(<<"COc1ccc(-c2cccc(CN3CCN(c4ncccn4)CC3)c2)cc1">>),
                PyStr(<<"Oc1[nH]cc2ccc(OCCCCN3CCN(c4cccc5cccc(F)c45)CC3)c(Cl)c12">>),
                PyStr(<<"CCCN1CCN(c2cccc(OC)c2)CC1">>),
                PyStr(<<"O=C(Nc1cccc(SC(F)(F)F)c1)N1CCC(N2CCC(n3c(O)nc4c(F)cccc43)CC2)CC1">>),
                PyStr(<<"CC1CCN(C2=Cc3cc(Cl)ccc3Cc3ccccc32)CC1">>),
                PyStr(<<"CCCN1CCOC2Cc3c(O)cccc3CC21">>),
                PyStr(<<"c1ccc(N2CCN(C3CCC(Nc4ncccn4)CC3)CC2)cc1">>),
                PyStr(<<"O=S(=O)(NC1CCC(N2CCC(c3ccccc3OCC(F)(F)F)CC2)CC1)c1ccc(OC(F)F)cc1">>),
                PyStr(<<"COc1ccccc1N1CCN(CCCCc2cc(-c3ccccc3)no2)CC1">>),
                PyStr(<<"c1ccc(CCC2CCN(Cc3c[nH]c4ncccc34)CC2)cc1">>),
                PyStr(<<"CC1CN(c2cccc3cc(F)ccc23)CCN1CCC1OCCc2c1sc(C(N)=O)c2Cl">>),
                PyStr(<<"COc1ccccc1N1CCCN(CCCCNC(=O)c2cc3ccccc3o2)CC1">>),
                PyStr(<<"O=C1CCc2ccc(OCCCCN3CCN(c4ccccc4C(F)(F)F)CC3)cc2N1">>),
                PyStr(<<"CCCCCCCCCC(=O)N1c2ccc(Cl)cc2N=C(N2CCN(C)CC2)c2ccccc21">>),
                PyStr(<<"O=C1N(CCN2CCC(C(F)(F)F)CC2)CCN1c1cccc(Cl)c1">>),
                PyStr(<<"CN1CCc2cccc3c2C1Cc1cccc(-c2c(OS(=O)(=O)C(F)(F)F)cccc2OS(=O)(=O)C(F)(F)F)c1-3">>),
                PyStr(<<"Cc1nn(C2CCN(Cc3cccc(C#N)c3)CC2)cc1-c1ccccc1">>),
                PyStr(<<"COc1ccc(-c2cc3c(O)n(CCN4CCN(c5ccccc5Cl)CC4)c(O)nc-3n2)cc1">>),
                PyStr(<<"OC1(c2cccc(Cl)c2Cl)CCN(Cc2c[nH]c3ccccc23)CC1">>),
                PyStr(<<"FC(F)(F)c1ccc2c(c1)N(Cc1ccc(CNc3cccc(Oc4ccccc4)c3)cc1)c1ccccc1S2">>),
                PyStr(<<"CCCSc1ccccc1N1CCN(CCCOc2ccc(-c3nc4ccccc4[nH]3)cc2)CC1">>),
                PyStr(<<"O=S(=O)(NCCCCN1CCN(c2cccc(Cl)c2Cl)CC1)c1cc2ccccc2cn1">>),
                PyStr(<<"COc1ccc(CN2CCN(CC(=O)N3c4ccccc4CC3C)CC2)cc1">>),
                PyStr(<<"CC1Cc2ccccc2N1C(=O)CC1CCN(Cc2ccc(Cl)cc2)CC1">>),
                PyStr(<<"CC(C)c1ccccc1N1CCN(CCCCCC(=O)NCc2ccccc2)CC1">>),
                PyStr(<<"Cc1ncoc1-c1nnc(SCCCN2CCc3cc4nc(C5CC5)oc4cc3CC2)n1C">>),
                PyStr(<<"O=C1CC(c2ccccc2)c2cccc(CCN3CCN(c4nsc5ccccc45)CC3)c2N1">>),
                PyStr(<<"O=C1NCN(c2ccccc2)C12CCN(CCCOc1ccc(F)cc1)CC2">>),
                PyStr(<<"CCON=C(CCN1CCN(c2nccs2)CC1)c1ccccc1">>),
                PyStr(<<"Cc1ccc2c(-c3nnc(SCCCN4CCc5cc6nc(-c7cc(C)nn7C)oc6cc5CC4)n3C)cccc2n1">>),
                PyStr(<<"CCCN(CCCCNC(=O)c1ccc(-c2ccccc2)cc1)C1Cc2cccn3ncc(c23)C1">>),
                PyStr(<<"Cc1ccc(OCCNCCCOc2ccccc2)cc1">>)>>))>>))

\* variant: the two limits are interchanged
DRD2_In5Swapped(m) ==
    LET m1 == Assign(m, "component_rotatable_bonds",
            PyDict(<<
                Item("component_type", PyStr(<<"num_rotatable_bonds">>)),
                Item("name", PyStr(<<"Number of rotatable bonds">>)),
                Item("weight", PyInt(1)),
                Item("specific_parameters", PyDict(<<
                    Item("transformation", PyDict(<<
                        Item("transformation_type", PyStr(<<"step">>)),
                        Item("high", PyInt(6)),
                        Item("low", PyInt(0))>>))>>))>>))
        m2 == Assign(m1, "component_num_hbd",
            PyDict(<<
                Item("component_type", PyStr(<<"num_hbd_lipinski">>)),
                Item("name", PyStr(<<"HB-donors (Lipinski)">>)),
                Item("weight", PyInt(1)),
                Item("specific_parameters", PyDict(<<
                    Item("transformation", PyDict(<<
                        Item("transformation_type", PyStr(<<"step">>)),
                        Item("high", PyInt(9)),
                        Item("low", PyInt(0))>>))>>))>>))
    IN  m2

DRD2_In5(m) ==
    LET m1 == Assign(m, "component_rotatable_bonds",
            PyDict(<<
                Item("component_type", PyStr(<<"num_rotatable_bonds">>)),
                Item("name", PyStr(<<"Number of rotatable bonds">>)),
                Item("weight", PyInt(1)),
                Item("specific_parameters", PyDict(<<
                    Item("transformation", PyDict(<<
                        Item("transformation_type", PyStr(<<"step">>)),
                        Item("high", PyInt(9)),
                        Item("low", PyInt(0))>>))>>))>>))
        m2 == Assign(m1, "component_num_hbd",
            PyDict(<<
                Item("component_type", PyStr(<<"num_hbd_lipinski">>)),
                Item("name", PyStr(<<"HB-donors (Lipinski)">>)),
                Item("weight", PyInt(1)),
                Item("specific_parameters", PyDict(<<
                    Item("transformation", PyDict(<<
                        Item("transformation_type", PyStr(<<"step">>)),
                        Item("high", PyInt(6)),
                        Item("low", PyInt(0))>>))>>))>>))
    IN  m2

DRD2_In6(m) ==
    Assign(m, "component_custom_alerts",
        PyDict(<<
            Item("component_type", PyStr(<<"custom_alerts">>)),
            Item("name", PyStr(<<"Custom_alerts">>)),
            Item("weight", PyInt(1)),
            Item("specific_parameters", PyDict(<<
                Item("smiles", PyList(<<
                    PyStr(<<"[*;r8]">>),
                    PyStr(<<"[*;r9]">>),
                    PyStr(<<"[*;r10]">>),
                    PyStr(<<"[*;r11]">>),
                    PyStr(<<"[*;r12]">>),
                    PyStr(<<"[*;r13]">>),
                    PyStr(<<"[*;r14]">>),
                    PyStr(<<"[*;r15]">>),
                    PyStr(<<"[*;r16]">>),
                    PyStr(<<"[*;r17]">>),
                    PyStr(<<"[#8][#8]">>),
                    PyStr(<<"[#6;+]">>),
                    PyStr(<<"[#16][#16]">>),
                    PyStr(<<"[#7;!n][S;!$(S(=O)=O)]">>),
                    PyStr(<<"[#7;!n][#7;!n]">>),
                    PyStr(<<"C#C">>),
                    PyStr(<<"C(=[O,S])[O,S]">>),
                    PyStr(<<"[#7;!n][C;!$(C(=[O,N])[N,O])][#16;!s]">>),
                    PyStr(<<"[#7;!n][C;!$(C(=[O,N])[N,O])][#7;!n]">>),
                    PyStr(<<"[#7;!n][C;!$(C(=[O,N])[N,O])][#8;!o]">>),
                    PyStr(<<"[#8;!o][C;!$(C(=[O,N])[N,O])][#16;!s]">>),
                    PyStr(<<"[#8;!o][C;!$(C(=[O,N])[N,O])][#8;!o]">>),
                    PyStr(<<"[#16;!s][C;!$(C(=[O,N])[N,O])][#16;!s]">>)>>))>>))>>))

DRD2_In7(m) ==
    Assign(m, "scoring_function",
        PyDict(<<
            Item("name", PyStr(<<"custom_sum">>)),
            Item("parallel", PyBool(TRUE)),
            Item("parameters", PyList(<<
                m.ns["component_DRD2_prediction"],
                m.ns["component_num_hbd"],
                m.ns["component_rotatable_bonds"],
                m.ns["component_custom_alerts"]>>))>>))

DRD2_In8(m) ==
    Assign(m, "configuration",
        PyDict(<<
            Item("version", PyInt(3)),
            Item("run_type", PyStr(<<"reinforcement_learning">>)),
            Item("parameters", PyDict(<<
                Item("scoring_function", m.ns["scoring_function"])>>))>>))

DRD2_In9_1(m) ==
    Assign(m, "configuration",
        SetItem(m.ns["configuration"], "parameters", SetItem(GetItem(m.ns["configuration"], "parameters"), "diversity_filter", m.ns["diversity_filter"])))

DRD2_In9_2(m) ==
    Assign(m, "configuration",
        SetItem(m.ns["configuration"], "parameters", SetItem(GetItem(m.ns["configuration"], "parameters"), "inception", m.ns["inception"])))

\* variant: the cell adds the diversity filter only
DRD2_In9NoInception(m) ==
    DRD2_In9_1(m)

DRD2_In9(m) ==
    DRD2_In9_2(DRD2_In9_1(m))

DRD2_In10(m) ==
    Assign(m, "configuration",
        SetItem(m.ns["configuration"], "parameters", SetItem(GetItem(m.ns["configuration"], "parameters"), "reinforcement_learning", PyDict(<<
            Item("prior", os_path_join(m.ns["ipynb_path"], PyStr(<<"models", "random.prior.new">>))),
            Item("agent", os_path_join(m.ns["ipynb_path"], PyStr(<<"models", "random.prior.new">>))),
            Item("n_steps", PyInt(300)),
            Item("sigma", PyInt(128)),
            Item("learning_rate", PyFloat(1, -4)),
            Item("batch_size", PyInt(128)),
            Item("reset", PyInt(0)),
            Item("reset_score_cutoff", PyFloat(5, -1)),
            Item("margin_threshold", PyInt(50))>>))))

DRD2_In11(m) ==
    Assign(m, "configuration",
        SetItem(m.ns["configuration"], "logging", PyDict(<<
            Item("sender", PyStr(<<"http:", "", "127.0.0.1">>)),
            Item("recipient", PyStr(<<"local">>)),
            Item("logging_frequency", PyInt(0)),
            Item("logging_path", os_path_join(m.ns["output_dir"], PyStr(<<"progress.log">>))),
            Item("result_folder", os_path_join(m.ns["output_dir"], PyStr(<<"results">>))),
            Item("job_name", PyStr(<<"Use-case DRD2 Demo">>)),
            Item("job_id", PyStr(<<"demo">>))>>)))

DRD2_In12(m) ==
    Assign(m, "configuration_JSON_path",
        os_path_join(m.ns["output_dir"], PyStr(<<"DRD2_config.json">>)))

DRD2_cells ==
    <<[kind |-> "setup"],
      [kind |-> "assign"],
      [kind |-> "assign"],
      [kind |-> "assign"],
      [kind |-> "assign"],
      [kind |-> "assign"],
      [kind |-> "assign"],
      [kind |-> "assign"],
      [kind |-> "assign"],
      [kind |-> "assign"],
      [kind |-> "assign"],
      [kind |-> "write", path |-> "configuration_JSON_path", obj |-> "configuration", indent |-> 4, sort_keys |-> TRUE],
      [kind |-> "run"],
      [kind |-> "post", parse |-> TRUE, filter |-> TRUE, indices |-> {1, 150, 299}],
      [kind |-> "print"],
      [kind |-> "head", count |-> 3, file |-> <<"results", "scaffold_memory.csv">>]>>

\* ---- DockStream notebook (src/unnamed/part_001) ----

DockStream_In1_1(m) ==
    LET m1 == Assign(m, "reinvent_dir",
            os_path_expanduser(PyStr(<<"~", "Desktop", "Reinvent">>)))
        m2 == Assign(m1, "reinvent_env",
            os_path_expanduser(PyStr(<<"~", "miniconda3", "envs", "reinvent.v3.0">>)))
        m3 == Assign(m2, "dockstream_dir",
            os_path_expanduser(PyStr(<<"~", "Desktop", "ProjectData", "DockStream">>)))
        m4 == Assign(m3, "dockstream_env",
            os_path_expanduser(PyStr(<<"~", "miniconda3", "envs", "DockStream", "bin", "python">>)))
    IN  m4

DockStream_In1_2(m) ==
    LET m1 == Assign(m, "docker_path",
            os_path_join(m.ns["dockstream_dir"], PyStr(<<"docker.py">>)))
        m2 == Assign(m1, "output_dir",
            os_path_expanduser(PyStr(<<"~", "Desktop", "REINVENT_RL_DockStream_demo">>)))
        m3 == TryName(m2, "ipynb_path", os_getcwd)
        m4 == TryMkdir(m3, "output_dir")
        m5 == Assign(m4, "grid_file_path",
            os_path_expanduser(PyStr(<<"~", "Desktop", "ReinventCommunity", "notebooks", "data", "DockStream", "1UYD_grid.zip">>)))
        m6 == Assign(m5, "output_ligands_docked_poses_path",
            os_path_expanduser(PyStr(<<"~", "Desktop", "REINVENT_RL_DockStream_demo", "docked_poses">>)))
        m7 == Assign(m6, "output_ligands_docking_scores_path",
            os_path_expanduser(PyStr(<<"~", "Desktop", "REINVENT_RL_DockStream_demo", "docking_scores">>)))
        m8 == TryMkdir(m7, "output_ligands_docked_poses_path")
        m9 == TryMkdir(m8, "output_ligands_docking_scores_path")
    IN  m9

DockStream_In1_3(m) ==
    Assign(m, "docking_configuration_path",
        os_path_join(m.ns["output_dir"], PyStr(<<"Glide_DockStream_Conf.json">>)))

DockStream_In1(m) ==
    DockStream_In1_3(DockStream_In1_2(DockStream_In1_1(m)))

DockStream_In2(m) ==
    Assign(m, "ed_dict",
        PyDict(<<
            Item("docking", PyDict(<<
                Item("header", PyDict(<<
                    Item("environment", PyDict(<<>>))>>)),
                Item("ligand_preparation", PyDict(<<
                    Item("embedding_pools", PyList(<<
                        PyDict(<<
                            Item("pool_id", PyStr(<<"Ligprep_pool">>)),
                            Item("type", PyStr(<<"Ligprep">>)),
                            Item("parameters", PyDict(<<
                                Item("prefix_execution", PyStr(<<"module load schrodinger", "2019-4">>)),
                                Item("parallelization", PyDict(<<
                                    Item("number_cores", PyInt(2))>>)),
                                Item("use_epik", PyDict(<<
                                    Item("target_pH", PyFloat(7, 0)),
                                    Item("pH_tolerance", PyFloat(2, 0))>>)),
                                Item("force_field", PyStr(<<"OPLS3e">>))>>)),
                            Item("input", PyDict(<<
                                Item("standardize_smiles", PyBool(FALSE)),
                                Item("type", PyStr(<<"console">>))>>))>>)>>))>>)),
                Item("docking_runs", PyList(<<
                    PyDict(<<
                        Item("backend", PyStr(<<"Glide">>)),
                        Item("run_id", PyStr(<<"Glide_run">>)),
                        Item("input_pools", PyList(<<
                            PyStr(<<"Ligprep_pool">>)>>)),
                        Item("parameters", PyDict(<<
                            Item("prefix_execution", PyStr(<<"module load schrodinger", "2019-4">>)),
                            Item("parallelization", PyDict(<<
                                Item("number_cores", PyInt(2))>>)),
                            Item("glide_flags", PyDict(<<
                                Item("-HOST", PyStr(<<"localhost">>))>>)),
                            Item("glide_keywords", PyDict(<<
                                Item("GRIDFILE", m.ns["grid_file_path"]),
                                Item("POSE_OUTTYPE", PyStr(<<"ligandlib_sd">>)),
                                Item("PRECISION", PyStr(<<"HTVS">>))>>))>>)),
                        Item("output", PyDict(<<
                            Item("poses", PyDict(<<
                                Item("poses_path", os_path_join(m.ns["output_ligands_docked_poses_path"], PyStr(<<"docked_poses.sdf">>)))>>)),
                            Item("scores", PyDict(<<
                                Item("scores_path", os_path_join(m.ns["output_ligands_docking_scores_path"], PyStr(<<"docking_scores.csv">>)))>>))>>))>>)>>))>>))>>))

DockStream_In3(m) ==
    Assign(m, "configuration",
        PyDict(<<
            Item("version", PyInt(3)),
            Item("run_type", PyStr(<<"reinforcement_learning">>))>>))

DockStream_In4(m) ==
    Assign(m, "configuration",
        SetItem(m.ns["configuration"], "logging", PyDict(<<
            Item("sender", PyStr(<<"http:", "", "0.0.0.1">>)),
            Item("recipient", PyStr(<<"local">>)),
            Item("logging_frequency", PyInt(1)),
            Item("logging_path", os_path_join(m.ns["output_dir"], PyStr(<<"progress.log">>))),
            Item("result_folder", os_path_join(m.ns["output_dir"], PyStr(<<"results">>))),
            Item("job_name", PyStr(<<"Reinforcement learning DockStream demo">>)),
            Item("job_id", PyStr(<<"demo">>))>>)))

DockStream_In5(m) ==
    Assign(m, "configuration",
        SetItem(m.ns["configuration"], "parameters", PyDict(<<>>)))

DockStream_In6(m) ==
    Assign(m, "configuration",
        SetItem(m.ns["configuration"], "parameters", SetItem(GetItem(m.ns["configuration"], "parameters"), "diversity_filter", PyDict(<<
            Item("name", PyStr(<<"IdenticalMurckoScaffold">>)),
            Item("nbmax", PyInt(25)),
            Item("minscore", PyFloat(4, -1)),
            Item("minsimilarity", PyFloat(4, -1))>>))))

DockStream_In7(m) ==
    Assign(m, "configuration",
        SetItem(m.ns["configuration"], "parameters", SetItem(GetItem(m.ns["configuration"], "parameters"), "inception", PyDict(<<
            Item("smiles", PyList(<<>>)),
            Item("memory_size", PyInt(100)),
            Item("sample_size", PyInt(10))>>))))

DockStream_In8(m) ==
    Assign(m, "configuration",
        SetItem(m.ns["configuration"], "parameters", SetItem(GetItem(m.ns["configuration"], "parameters"), "reinforcement_learning", PyDict(<<
            Item("prior", os_path_join(m.ns["ipynb_path"], PyStr(<<"models", "random.prior.new">>))),
            Item("agent", os_path_join(m.ns["ipynb_path"], PyStr(<<"models", "random.prior.new">>))),
            Item("n_steps", PyInt(2)),
            Item("sigma", PyInt(128)),
            Item("learning_rate", PyFloat(1, -4)),
            Item("batch_size", PyInt(32)),
            Item("reset", PyInt(0)),
            Item("reset_score_cutoff", PyFloat(5, -1)),
            Item("margin_threshold", PyInt(50))>>))))

DockStream_In9_1(m) ==
    Assign(m, "scoring_function",
        PyDict(<<
            Item("name", PyStr(<<"custom_product">>)),
            Item("parallel", PyBool(FALSE)),
            Item("parameters", PyList(<<
                PyDict(<<
                    Item("component_type", PyStr(<<"dockstream">>)),
                    Item("name", PyStr(<<"Glide LigPrep Docking">>)),
                    Item("weight", PyInt(1)),
                    Item("specific_parameters", PyDict(<<
                        Item("transformation", PyDict(<<
                            Item("transformation_type", PyStr(<<"reverse_sigmoid">>)),
                            Item("low", PyInt(-11)),
                            Item("high", PyInt(-5)),
                            Item("k", PyFloat(25, -2))>>)),
                        Item("configuration_path", m.ns["docking_configuration_path"]),
                        Item("docker_script_path", m.ns["docker_path"]),
                        Item("environment_path", m.ns["dockstream_env"])>>))>>)>>))>>))

DockStream_In9_2(m) ==
    Assign(m, "configuration",
        SetItem(m.ns["configuration"], "parameters", SetItem(GetItem(m.ns["configuration"], "parameters"), "scoring_function", m.ns["scoring_function"])))

DockStream_In9(m) ==
    DockStream_In9_2(DockStream_In9_1(m))

DockStream_In10(m) ==
    Assign(m, "configuration_JSON_path",
        os_path_join(m.ns["output_dir"], PyStr(<<"RL_DockStream_config.json">>)))

DockStream_cells ==
    <<[kind |-> "setup"],
      [kind |-> "write", path |-> "docking_configuration_path", obj |-> "ed_dict", indent |-> 2, sort_keys |-> FALSE],
      [kind |-> "assign"],
      [kind |-> "assign"],
      [kind |-> "assign"],
      [kind |-> "assign"],
      [kind |-> "assign"],
      [kind |-> "assign"],
      [kind |-> "assign"],
      [kind |-> "write", path |-> "configuration_JSON_path", obj |-> "configuration", indent |-> 4, sort_keys |-> TRUE],
      [kind |-> "run"],
      [kind |-> "post", parse |-> TRUE, filter |-> FALSE, indices |-> {}],
      [kind |-> "print"],
      [kind |-> "head", count |-> 15, file |-> <<"results", "memory.csv">>]>>

\* ---- Tanimoto notebook (src/unnamed/part_002) ----

Tanimoto_In1(m) ==
    LET m1 == Assign(m, "reinvent_dir",
            os_path_expanduser(PyStr(<<"~", "Desktop", "Reinvent">>)))
        m2 == Assign(m1, "reinvent_env",
            os_path_expanduser(PyStr(<<"~", "miniconda3", "envs", "reinvent.v3.0">>)))
        m3 == Assign(m2, "output_dir",
            os_path_expanduser(PyStr(<<"~", "Desktop", "REINVENT_RL_Tanimoto_Similarity_demo">>)))
        m4 == TryName(m3, "ipynb_path", os_getcwd)
        m5 == TryMkdir(m4, "output_dir")
    IN  m5

Tanimoto_In2(m) ==
    Assign(m, "configuration",
        PyDict(<<
            Item("version", PyInt(3)),
            Item("run_type", PyStr(<<"reinforcement_learning">>))>>))

Tanimoto_In3(m) ==
    Assign(m, "configuration",
        SetItem(m.ns["configuration"], "logging", PyDict(<<
            Item("sender", PyStr(<<"http:", "", "0.0.0.1">>)),
            Item("recipient", PyStr(<<"local">>)),
            Item("logging_frequency", PyInt(10)),
            Item("logging_path", os_path_join(m.ns["output_dir"], PyStr(<<"progress.log">>))),
            Item("result_folder", os_path_join(m.ns["output_dir"], PyStr(<<"results">>))),
            Item("job_name", PyStr(<<"Reinforcement learning demo">>)),
            Item("job_id", PyStr(<<"demo">>))>>)))

Tanimoto_In4(m) ==
    Assign(m, "configuration",
        SetItem(m.ns["configuration"], "parameters", PyDict(<<>>)))

Tanimoto_In5(m) ==
    Assign(m, "configuration",
        SetItem(m.ns["configuration"], "parameters", SetItem(GetItem(m.ns["configuration"], "parameters"), "diversity_filter", PyDict(<<
            Item("name", PyStr(<<"IdenticalMurckoScaffold">>)),
            Item("nbmax", PyInt(25)),
            Item("minscore", PyFloat(4, -1)),
            Item("minsimilarity", PyFloat(4, -1))>>))))

Tanimoto_In6(m) ==
    Assign(m, "configuration",
        SetItem(m.ns["configuration"], "parameters", SetItem(GetItem(m.ns["configuration"], "parameters"), "inception", PyDict(<<
            Item("smiles", PyList(<<>>)),
            Item("memory_size", PyInt(100)),
            Item("sample_size", PyInt(10))>>))))

Tanimoto_In7(m) ==
    Assign(m, "configuration",
        SetItem(m.ns["configuration"], "parameters", SetItem(GetItem(m.ns["configuration"], "parameters"), "reinforcement_learning", PyDict(<<
            Item("prior", os_path_join(m.ns["ipynb_path"], PyStr(<<"models", "random.prior.new">>))),
            Item("agent", os_path_join(m.ns["ipynb_path"], PyStr(<<"models", "random.prior.new">>))),
            Item("n_steps", PyInt(125)),
            Item("sigma", PyInt(128)),
            Item("learning_rate", PyFloat(1, -4)),
            Item("batch_size", PyInt(128)),
            Item("reset", PyInt(0)),
            Item("reset_score_cutoff", PyFloat(5, -1)),
            Item("margin_threshold", PyInt(50))>>))))

Tanimoto_In8_1(m) ==
    Assign(m, "scoring_function",
        PyDict(<<
            Item("name", PyStr(<<"custom_product">>)),
            Item("parallel", PyBool(FALSE)),
            Item("parameters", PyList(<<
                PyDict(<<
                    Item("component_type", PyStr(<<"tanimoto_similarity">>)),
                    Item("name", PyStr(<<"Tanimoto similarity">>)),
                    Item("weight", PyInt(1)),
                    Item("specific_parameters", PyDict(<<
                        Item("smiles", PyList(<<
                            PyStr(<<"O=S(=O)(c3ccc(n1nc(cc1c2ccc(cc2)C)C(F)(F)F)cc3)N">>)>>))>>))>>)>>))>>))

Tanimoto_In8_2(m) ==
    Assign(m, "configuration",
        SetItem(m.ns["configuration"], "parameters", SetItem(GetItem(m.ns["configuration"], "parameters"), "scoring_function", m.ns["scoring_function"])))

Tanimoto_In8(m) ==
    Tanimoto_In8_2(Tanimoto_In8_1(m))

Tanimoto_In9(m) ==
    Assign(m, "configuration_JSON_path",
        os_path_join(m.ns["output_dir"], PyStr(<<"RL_config.json">>)))

Tanimoto_cells ==
    <<[kind |-> "setup"],
      [kind |-> "assign"],
      [kind |-> "assign"],
      [kind |-> "assign"],
      [kind |-> "assign"],
      [kind |-> "assign"],
      [kind |-> "assign"],
      [kind |-> "assign"],
      [kind |-> "write", path |-> "configuration_JSON_path", obj |-> "configuration", indent |-> 4, sort_keys |-> TRUE],
      [kind |-> "run"],
      [kind |-> "post", parse |-> TRUE, filter |-> TRUE, indices |-> {1, 75, 124}],
      [kind |-> "print"],
      [kind |-> "head", count |-> 15, file |-> <<"results", "memory.csv">>]>>

Notebooks == {"Sampling", "Exploration", "Selectivity", "DRD2", "DockStream", "Tanimoto"}

Cells(n) ==
    CASE n = "Sampling" -> Sampling_cells
      [] n = "Exploration" -> Exploration_cells
      [] n = "Selectivity" -> Selectivity_cells
      [] n = "DRD2" -> DRD2_cells
      [] n = "DockStream" -> DockStream_cells
      [] n = "Tanimoto" -> Tanimoto_cells

\* the Python statements of code cell i of notebook n, run on machine state m
CellBody(n, i, m) ==
    CASE n = "Sampling" /\ i = 1 -> Sampling_In1(m)
      [] n = "Sampling" /\ i = 2 -> Sampling_In2(m)
      [] n = "Sampling" /\ i = 3 -> Sampling_In3(m)
      [] n = "Sampling" /\ i = 4 -> Sampling_In4(m)
      [] n = "Sampling" /\ i = 5 -> Sampling_In5(m)
      [] n = "Exploration" /\ i = 1 -> Exploration_In1(m)
      [] n = "Exploration" /\ i = 2 -> Exploration_In2(m)
      [] n = "Exploration" /\ i = 3 -> Exploration_In3(m)
      [] n = "Exploration" /\ i = 4 -> Exploration_In4(m)
      [] n = "Exploration" /\ i = 5 -> Exploration_In5(m)
      [] n = "Exploration" /\ i = 6 -> Exploration_In6(m)
      [] n = "Exploration" /\ i = 7 -> Exploration_In7(m)
      [] n = "Exploration" /\ i = 8 -> Exploration_In8(m)
      [] n = "Exploration" /\ i = 9 -> Exploration_In9(m)
      [] n = "Selectivity" /\ i = 1 -> Selectivity_In1(m)
      [] n = "Selectivity" /\ i = 2 -> Selectivity_In2(m)
      [] n = "Selectivity" /\ i = 3 -> Selectivity_In3(m)
      [] n = "Selectivity" /\ i = 4 -> Selectivity_In4(m)
      [] n = "Selectivity" /\ i = 5 -> Selectivity_In5(m)
      [] n = "Selectivity" /\ i = 6 -> Selectivity_In6(m)
      [] n = "Selectivity" /\ i = 7 -> Selectivity_In7(m)
      [] n = "Selectivity" /\ i = 8 -> Selectivity_In8(m)
      [] n = "Selectivity" /\ i = 9 -> Selectivity_In9(m)
      [] n = "DRD2" /\ i = 1 -> DRD2_In1(m)
      [] n = "DRD2" /\ i = 2 -> DRD2_In2(m)
      [] n = "DRD2" /\ i = 3 -> DRD2_In3(m)
      [] n = "DRD2" /\ i = 4 -> DRD2_In4(m)
      [] n = "DRD2" /\ i = 5 -> DRD2_In5(m)
      [] n = "DRD2" /\ i = 6 -> DRD2_In6(m)
      [] n = "DRD2" /\ i = 7 -> DRD2_In7(m)
      [] n = "DRD2" /\ i = 8 -> DRD2_In8(m)
      [] n = "DRD2" /\ i = 9 -> DRD2_In9(m)
      [] n = "DRD2" /\ i = 10 -> DRD2_In10(m)
      [] n = "DRD2" /\ i = 11 -> DRD2_In11(m)
      [] n = "DRD2" /\ i = 12 -> DRD2_In12(m)
      [] n = "DockStream" /\ i = 1 -> DockStream_In1(m)
      [] n = "DockStream" /\ i = 2 -> DockStream_In2(m)
      [] n = "DockStream" /\ i = 3 -> DockStream_In3(m)
      [] n = "DockStream" /\ i = 4 -> DockStream_In4(m)
      [] n = "DockStream" /\ i = 5 -> DockStream_In5(m)
      [] n = "DockStream" /\ i = 6 -> DockStream_In6(m)
      [] n = "DockStream" /\ i = 7 -> DockStream_In7(m)
      [] n = "DockStream" /\ i = 8 -> DockStream_In8(m)
      [] n = "DockStream" /\ i = 9 -> DockStream_In9(m)
      [] n = "DockStream" /\ i = 10 -> DockStream_In10(m)
      [] n = "Tanimoto" /\ i = 1 -> Tanimoto_In1(m)
      [] n = "Tanimoto" /\ i = 2 -> Tanimoto_In2(m)
      [] n = "Tanimoto" /\ i = 3 -> Tanimoto_In3(m)
      [] n = "Tanimoto" /\ i = 4 -> Tanimoto_In4(m)
      [] n = "Tanimoto" /\ i = 5 -> Tanimoto_In5(m)
      [] n = "Tanimoto" /\ i = 6 -> Tanimoto_In6(m)
      [] n = "Tanimoto" /\ i = 7 -> Tanimoto_In7(m)
      [] n = "Tanimoto" /\ i = 8 -> Tanimoto_In8(m)
      [] n = "Tanimoto" /\ i = 9 -> Tanimoto_In9(m)
      [] OTHER -> m

(***************************************************************************)
(* The captured output of the tool is a sequence of lines.  A log record   *)
(* of the tool starts a line with a prefix naming the logger (it contains  *)
(* "local"), then the level "INFO" and a message that can run over the     *)
(* following lines.                                                        *)
(***************************************************************************)
Msg(s) == [msg |-> s, step |-> -1]
StepText(k) == [msg |-> "Step", step |-> k]
LogLine(local, info, text) == [local |-> local, info |-> info, text |-> text]

StartLine == LogLine(TRUE, TRUE, Msg("starting an RL run"))
HeaderLine == LogLine(TRUE, TRUE, Msg(""))
OtherLine == LogLine(TRUE, TRUE, Msg("other"))
TracebackLine == LogLine(FALSE, FALSE, Msg("Traceback"))

\* the log of a reinforcement-learning run that completed 'done' of its steps,
\* with 'extra' further records after the first step
RLLog(done, extra, crashed) ==
    LET base == IF done > 0 THEN 3 + extra ELSE 1
        n == base + 2 * (IF done > 0 THEN done - 1 ELSE 0) + (IF crashed THEN 1 ELSE 0)
    IN  [i \in 1..n |->
            IF i = 1 THEN StartLine
            ELSE IF done > 0 /\ i = 2 THEN HeaderLine
            ELSE IF done > 0 /\ i = 3 THEN LogLine(FALSE, FALSE, StepText(0))
            ELSE IF done > 0 /\ i <= base THEN OtherLine
            ELSE IF i > base + 2 * (IF done > 0 THEN done - 1 ELSE 0) THEN TracebackLine
            ELSE IF (i - base) % 2 = 1 THEN HeaderLine
            ELSE LogLine(FALSE, FALSE, StepText((i - base) \div 2))]

(***************************************************************************)
(* re.findall(r'INFO.*?local', text, re.DOTALL): scanning left to right,   *)
(* a match starts at the next "INFO" and ends at the first "local" after   *)
(* it; the scan resumes behind that "local".  cur is the line where the    *)
(* open match started, 0 when the scan is looking for "INFO".              *)
(***************************************************************************)
RECURSIVE Scan(_, _, _, _)
Scan(lines, lo, hi, cur) ==
    IF lo > hi THEN [ms |-> <<>>, cur |-> cur]
    ELSE IF lo = hi THEN
        LET l == lines[lo]
            closes == cur > 0 /\ l.local
            cur1 == IF closes THEN 0 ELSE cur
        IN  [ms |-> IF closes THEN <<[from |-> cur, to |-> lo]>> ELSE <<>>,
             cur |-> IF cur1 = 0 /\ l.info THEN lo ELSE cur1]
    ELSE Only({Only({Only({[ms |-> left.ms \o right.ms, cur |-> right.cur] :
                              right \in {Scan(lines, mid + 1, hi, left.cur)}}) :
                        left \in {Scan(lines, lo, mid, cur)}}) :
                  mid \in {(lo + hi) \div 2}})

\* the matched text: from "INFO" in line from up to "local" in line to
MatchText(lines, m) ==
    <<[lines[m.from] EXCEPT !.local = FALSE]>>
    \o SubSeq(lines, m.from + 1, m.to - 1)
    \o <<LogLine(TRUE, FALSE, Msg(""))>>

findall(lines) ==
    Only({[i \in 1..Len(ms) |-> MatchText(lines, ms[i])] :
            ms \in {Scan(lines, 1, Len(lines), 0).ms}})

\* variant: positions counted from 1
SelectEpochsOneBased(list_epochs, filter, indices) ==
    IF ~filter THEN list_epochs
    ELSE Only({[j \in 1..Len(kept) |-> list_epochs[kept[j]]] :
                 kept \in {SortedSeq({idx \in 1..Len(list_epochs) : idx \in indices})}})

\* [epoch for idx, epoch in enumerate(list_epochs) if idx in indices]
SelectEpochs(list_epochs, filter, indices) ==
    IF ~filter THEN list_epochs
    ELSE Only({[j \in 1..Len(kept) |-> list_epochs[kept[j] + 1]] :
                 kept \in {SortedSeq({idx \in 0..(Len(list_epochs) - 1) : idx \in indices})}})

\* "\n".join(element.splitlines()[:-1])
DropLastLine(element) == SubSeq(element, 1, Len(element) - 1)

(***************************************************************************)
(* Start states: the notebook, what the kernel already defines and the     *)
(* file system the notebook is run on.                                     *)
(***************************************************************************)
MaxSetupRuns == 2
MaxExtra == 2

EmptyNs == [x \in {} |-> PyInt(0)]
Desktop == Home \o <<"Desktop">>
FreshFs == [dirs |-> {Home, Desktop}, files |-> [p \in {} |-> <<>>], readonly |-> {}]

\* output_dir as the setup cell of notebook n sets it
OutputDir(n) == CellBody(n, 1, [ns |-> EmptyNs, fs |-> FreshFs, exc |-> ""]).ns["output_dir"].str

StaleLines == <<LogLine(FALSE, FALSE, Msg("previous run"))>>

FsCases(n) ==
    LET od == OutputDir(n)
    IN  { FreshFs,
          \* left by an earlier run of the notebook
          [dirs |-> {Home, Desktop, od, od \o <<"results">>, od \o <<"sampled">>,
                     od \o <<"docked_poses">>, od \o <<"docking_scores">>},
           files |-> [p \in {od \o <<"run.err">>, od \o <<"results", "memory.csv">>,
                             od \o <<"results", "scaffold_memory.csv">>,
                             od \o <<"sampled", "sampled.smi">>} |-> StaleLines],
           readonly |-> {}],
          \* no ~/Desktop
          [dirs |-> {Home}, files |-> [p \in {} |-> <<>>], readonly |-> {}],
          \* ~/Desktop not writable
          [dirs |-> {Home, Desktop}, files |-> [p \in {} |-> <<>>], readonly |-> {Desktop}],
          \* output_dir exists and is not writable
          [dirs |-> {Home, Desktop, od}, files |-> [p \in {} |-> <<>>], readonly |-> {od}],
          \* output_dir is a regular file
          [dirs |-> {Home, Desktop}, files |-> [p \in {od} |-> StaleLines], readonly |-> {}] }

KernelCases ==
    { EmptyNs,
      [x \in {"ipynb_path"} |-> PyStr(<<"", "opt", "ReinventCommunity", "notebooks">>)] }

Init ==
    /\ nb \in Notebooks
    /\ pc = 1
    /\ status = "idle"
    /\ exc = ""
    /\ ns \in KernelCases
    /\ fs \in FsCases(nb)
    /\ fh = <<>>
    /\ tool = [state |-> "notstarted", arg |-> <<>>, stdout |-> <<>>, code |-> 0]
    /\ launches = 0
    /\ setupRuns = 0
    /\ out = <<>>
    /\ trace = <<>>

NumCells == Len(Cells(nb))
Cell == Cells(nb)[pc]
AtCell(kind) == status = "idle" /\ pc <= NumCells /\ Cell.kind = kind
Finished == status = "idle" /\ pc = NumCells + 1

\* the kernel after the Python statements of cell i
RunBody(i) == CellBody(nb, i, [ns |-> ns, fs |-> fs, exc |-> ""])

(***************************************************************************)
(* The cells.  A cell that raises leaves the notebook stopped at it.       *)
(***************************************************************************)
\* the first cell: paths and output folders
Setup ==
    /\ AtCell("setup")
    /\ \E m \in {RunBody(pc)} :
           /\ ns' = m.ns
           /\ fs' = m.fs
           /\ status' = IF m.exc = "" THEN "idle" ELSE "error"
           /\ exc' = m.exc
           /\ pc' = IF m.exc = "" THEN pc + 1 ELSE pc
    /\ setupRuns' = setupRuns + 1
    /\ UNCHANGED <<nb, fh, tool, launches, out, trace>>

\* the user executes the first cell again before going on
RerunSetup ==
    /\ status = "idle" /\ pc = 2 /\ setupRuns < MaxSetupRuns
    /\ \E m \in {RunBody(1)} :
           /\ ns' = m.ns
           /\ fs' = m.fs
           /\ status' = IF m.exc = "" THEN "idle" ELSE "error"
           /\ exc' = m.exc
    /\ setupRuns' = setupRuns + 1
    /\ UNCHANGED <<nb, pc, fh, tool, launches, out, trace>>

\* a cell that only builds values
AssignCell ==
    /\ AtCell("assign")
    /\ \E m \in {RunBody(pc)} :
           /\ ns' = m.ns
           /\ fs' = m.fs
           /\ status' = IF m.exc = "" THEN "idle" ELSE "error"
           /\ exc' = m.exc
           /\ pc' = IF m.exc = "" THEN pc + 1 ELSE pc
    /\ UNCHANGED <<nb, fh, tool, launches, setupRuns, out, trace>>

\* variant: a failing open() is swallowed and the cell is passed over
WriteOpenCaught ==
    /\ AtCell("write")
    /\ \E m \in {RunBody(pc)} :
       \E r \in {open_w(m.fs, m.ns[Cell.path].str)} :
           /\ ns' = m.ns
           /\ fs' = r.fs
           /\ exc' = ""
           /\ IF r.exc = ""
              THEN status' = "opened" /\ fh' = m.ns[Cell.path].str /\ pc' = pc
              ELSE status' = "idle" /\ fh' = fh /\ pc' = pc + 1
    /\ UNCHANGED <<nb, tool, launches, setupRuns, out, trace>>

\* with open(path, 'w') as f:  -- entering the block
WriteOpen ==
    /\ AtCell("write")
    /\ \E m \in {RunBody(pc)} :
       \E r \in {open_w(m.fs, m.ns[Cell.path].str)} :
           /\ ns' = m.ns
           /\ fs' = r.fs
           /\ exc' = r.exc
           /\ IF r.exc = ""
              THEN status' = "opened" /\ fh' = m.ns[Cell.path].str
              ELSE status' = "error" /\ fh' = fh
    /\ UNCHANGED <<nb, pc, tool, launches, setupRuns, out, trace>>

\* variant: the dictionary is dumped to a handle that is never flushed or
\* closed (open() without the with block), and the cell goes on
WriteDumpUnflushed ==
    /\ status = "opened"
    /\ fs' = fs
    /\ status' = "idle"
    /\ exc' = ""
    /\ pc' = pc + 1
    /\ trace' = trace
    /\ fh' = fh
    /\ UNCHANGED <<nb, ns, tool, launches, setupRuns, out>>

\*     json.dump(obj, f, indent=.., sort_keys=..)  -- and leaving the block,
\* which closes the file; the write can fail part way (disk full)
WriteDump ==
    /\ status = "opened"
    /\ \E text \in {dump(ns[Cell.obj], Cell.indent, Cell.sort_keys)} :
           \E ok \in BOOLEAN :
              IF ok
              THEN /\ fs' = write(fs, fh, text)
                   /\ status' = "idle"
                   /\ exc' = ""
                   /\ pc' = pc + 1
                   /\ trace' = Append(trace, "closed:" \o Cell.obj)
              ELSE /\ fs' = write(fs, fh, SubSeq(text, 1, Len(text) \div 2))
                   /\ status' = "error"
                   /\ exc' = "OSError"
                   /\ pc' = pc
                   /\ trace' = trace
    /\ fh' = <<>>
    /\ UNCHANGED <<nb, ns, tool, launches, setupRuns, out>>

\* !{reinvent_env}/bin/python {reinvent_dir}/input.py {configuration_JSON_path}
Launch ==
    /\ AtCell("run")
    /\ tool' = [state |-> "running", arg |-> ns["configuration_JSON_path"].str,
                stdout |-> <<>>, code |-> 0]
    /\ launches' = launches + 1
    /\ status' = "running"
    /\ trace' = Append(trace, "launch")
    /\ UNCHANGED <<nb, exc, pc, ns, fs, fh, setupRuns, out>>

(***************************************************************************)
(* The external tool.  It reads the configuration file named on its        *)
(* command line, prints its log and, when the run completes, leaves its    *)
(* result files.  It can fail at start, stop part way or never end; code   *)
(* is its exit status, which is 0 only for a run that completed.           *)
(***************************************************************************)
RunType(cfg) == GetItem(cfg, "run_type").str
NSteps(cfg) == GetItem(GetItem(GetItem(cfg, "parameters"), "reinforcement_learning"), "n_steps").int
ResultFolder(cfg) == GetItem(GetItem(cfg, "logging"), "result_folder").str
OutputSmilesPath(cfg) == GetItem(GetItem(cfg, "parameters"), "output_smiles_path").str

\* the numbers of steps after which a run of n steps can end
Completed(n) == {n} \cup ({0, 1, n \div 2} \cap 0..(n - 1))

ResultLines(name) == <<LogLine(FALSE, FALSE, Msg(name))>>

\* the files a completed run leaves
ToolResults(f, cfg) ==
    IF RunType(cfg) = <<"sampling">>
    THEN [f EXCEPT !.dirs = @ \cup {dirname(OutputSmilesPath(cfg))},
                   !.files = Bind(@, OutputSmilesPath(cfg), ResultLines("sampled.smi"))]
    ELSE LET rf == ResultFolder(cfg)
         IN  [f EXCEPT !.dirs = @ \cup {rf},
                       !.files = Bind(Bind(@, rf \o <<"memory.csv">>, ResultLines("memory.csv")),
                                      rf \o <<"scaffold_memory.csv">>, ResultLines("scaffold_memory.csv"))]

ToolExit ==
    /\ tool.state = "running"
    /\ LET r == IF IsFile(fs, tool.arg) THEN load(fs.files[tool.arg])
                ELSE [ok |-> FALSE, value |-> PyDict(<<>>)]
       IN  \/ \* fails at start
              /\ tool' = [tool EXCEPT !.state = "exited", !.stdout = <<TracebackLine>>,
                                      !.code = 1]
              /\ fs' = fs
           \/ /\ r.ok /\ RunType(r.value) = <<"sampling">>
              /\ tool' = [tool EXCEPT !.state = "exited", !.stdout = <<>>]
              /\ fs' = ToolResults(fs, r.value)
           \/ /\ r.ok /\ RunType(r.value) = <<"reinforcement_learning">>
              /\ \E done \in Completed(NSteps(r.value)), extra \in 0..MaxExtra :
                    /\ tool' = [tool EXCEPT !.state = "exited",
                                            !.stdout = RLLog(done, extra, done < NSteps(r.value)),
                                            !.code = IF done < NSteps(r.value) THEN 1 ELSE 0]
                    /\ fs' = IF done = NSteps(r.value) THEN ToolResults(fs, r.value) ELSE fs
    /\ trace' = Append(trace, "exit")
    /\ UNCHANGED <<nb, exc, pc, status, ns, fh, launches, setupRuns, out>>

\* variant: the shell call returns without waiting for the process
RunReturnNoWait ==
    /\ status = "running"
    /\ ns' = Bind(ns, "captured_err_stream", [stdout |-> tool.stdout])
    /\ status' = "idle"
    /\ pc' = pc + 1
    /\ UNCHANGED <<nb, exc, fs, fh, tool, launches, setupRuns, out, trace>>

\* variant: the shell call raises on a non-zero exit status, as
\* subprocess.check_call does
RunReturnChecked ==
    /\ status = "running"
    /\ tool.state = "exited"
    /\ ns' = Bind(ns, "captured_err_stream", [stdout |-> tool.stdout])
    /\ status' = IF tool.code = 0 THEN "idle" ELSE "error"
    /\ exc' = IF tool.code = 0 THEN exc ELSE "CalledProcessError"
    /\ pc' = IF tool.code = 0 THEN pc + 1 ELSE pc
    /\ UNCHANGED <<nb, fs, fh, tool, launches, setupRuns, out, trace>>

\* the shell call returns; %%capture binds the captured output
RunReturn ==
    /\ status = "running"
    /\ tool.state = "exited"
    /\ ns' = Bind(ns, "captured_err_stream", [stdout |-> tool.stdout])
    /\ status' = "idle"
    /\ pc' = pc + 1
    /\ UNCHANGED <<nb, exc, fs, fh, tool, launches, setupRuns, out, trace>>

\* variant: the blocks are taken by subscript, data = [list_epochs[i] for i in indices],
\* which raises IndexError on a log with fewer matches
PostSubscript ==
    /\ AtCell("post")
    /\ \E p \in {join(ns["output_dir"].str, <<"run.err">>)} :
       \E r \in {open_w(fs, p)} :
       \E list_epochs \in {findall(ns["captured_err_stream"].stdout)} :
       \E data \in {SelectEpochs(list_epochs, Cell.filter, Cell.indices)} :
           IF r.exc # "" \/ (Cell.filter /\ \E idx \in Cell.indices : idx >= Len(list_epochs))
           THEN /\ fs' = IF r.exc # "" THEN r.fs
                          ELSE write(r.fs, p, ns["captured_err_stream"].stdout)
                /\ status' = "error"
                /\ exc' = IF r.exc # "" THEN r.exc ELSE "IndexError"
                /\ UNCHANGED <<pc, ns, trace>>
           ELSE /\ fs' = write(r.fs, p, ns["captured_err_stream"].stdout)
                /\ status' = "idle"
                /\ exc' = ""
                /\ pc' = pc + 1
                /\ IF Cell.parse
                   THEN /\ ns' = Bind(Bind(ns, "list_epochs", list_epochs), "data",
                                      [i \in 1..Len(data) |-> DropLastLine(data[i])])
                        /\ trace' = trace \o <<"run.err", "parse">>
                   ELSE /\ ns' = ns
                        /\ trace' = Append(trace, "run.err")
    /\ UNCHANGED <<nb, fh, tool, launches, setupRuns, out>>

\* variant: run.err is put into the results folder of the tool
PostInResults ==
    /\ AtCell("post")
    /\ \E p \in {join(ns["output_dir"].str, <<"results", "run.err">>)} :
       \E r \in {open_w(fs, p)} :
       \E list_epochs \in {findall(ns["captured_err_stream"].stdout)} :
       \E data \in {SelectEpochs(list_epochs, Cell.filter, Cell.indices)} :
           IF r.exc # ""
           THEN /\ fs' = r.fs
                /\ status' = "error"
                /\ exc' = r.exc
                /\ UNCHANGED <<pc, ns, trace>>
           ELSE /\ fs' = write(r.fs, p, ns["captured_err_stream"].stdout)
                /\ status' = "idle"
                /\ exc' = ""
                /\ pc' = pc + 1
                /\ IF Cell.parse
                   THEN /\ ns' = Bind(Bind(ns, "list_epochs", list_epochs), "data",
                                      [i \in 1..Len(data) |-> DropLastLine(data[i])])
                        /\ trace' = trace \o <<"run.err", "parse">>
                   ELSE /\ ns' = ns
                        /\ trace' = Append(trace, "run.err")
    /\ UNCHANGED <<nb, fh, tool, launches, setupRuns, out>>

\* write run.err, then slice the epoch blocks out of the captured output
Post ==
    /\ AtCell("post")
    /\ \E p \in {join(ns["output_dir"].str, <<"run.err">>)} :
       \E r \in {open_w(fs, p)} :
       \E list_epochs \in {findall(ns["captured_err_stream"].stdout)} :
       \E data \in {SelectEpochs(list_epochs, Cell.filter, Cell.indices)} :
           IF r.exc # ""
           THEN /\ fs' = r.fs
                /\ status' = "error"
                /\ exc' = r.exc
                /\ UNCHANGED <<pc, ns, trace>>
           ELSE /\ fs' = write(r.fs, p, ns["captured_err_stream"].stdout)
                /\ status' = "idle"
                /\ exc' = ""
                /\ pc' = pc + 1
                /\ IF Cell.parse
                   THEN /\ ns' = Bind(Bind(ns, "list_epochs", list_epochs), "data",
                                      [i \in 1..Len(data) |-> DropLastLine(data[i])])
                        /\ trace' = trace \o <<"run.err", "parse">>
                   ELSE /\ ns' = ns
                        /\ trace' = Append(trace, "run.err")
    /\ UNCHANGED <<nb, fh, tool, launches, setupRuns, out>>

\* for element in data: print(element)
PrintData ==
    /\ AtCell("print")
    /\ out' = out \o [i \in 1..Len(ns["data"]) |-> [cell |-> "print", lines |-> ns["data"][i]]]
    /\ pc' = pc + 1
    /\ trace' = Append(trace, "display")
    /\ UNCHANGED <<nb, exc, status, ns, fs, fh, tool, launches, setupRuns>>

\* !head -n count {output_dir}/file
HeadFile ==
    /\ AtCell("head")
    /\ LET p == join(ns["output_dir"].str, Cell.file)
           shown == IF IsFile(fs, p)
                    THEN SubSeq(fs.files[p], 1, IF Len(fs.files[p]) < Cell.count
                                                 THEN Len(fs.files[p]) ELSE Cell.count)
                    ELSE <<>>
       IN  out' = Append(out, [cell |-> "head", lines |-> shown])
    /\ pc' = pc + 1
    /\ trace' = Append(trace, "display")
    /\ UNCHANGED <<nb, exc, status, ns, fs, fh, tool, launches, setupRuns>>

Next ==
    \/ Setup
    \/ RerunSetup
    \/ AssignCell
    \/ WriteOpen
    \/ WriteDump
    \/ Launch
    \/ ToolExit
    \/ RunReturn
    \/ Post
    \/ PrintData
    \/ HeadFile

Spec == Init /\ [][Next]_vars

\* the kernel goes on with the next cell as long as one can run; nothing
\* makes the tool end
KernelStep ==
    Setup \/ AssignCell \/ WriteOpen \/ WriteDump \/ Launch \/ RunReturn \/ Post
        \/ PrintData \/ HeadFile

FairSpec == Spec /\ WF_vars(KernelStep)

(***************************************************************************)
(* Properties.                                                             *)
(***************************************************************************)
Occurs(e) == \E i \in 1..Len(trace) : trace[i] = e
First(e) == CHOOSE i \in 1..Len(trace) : trace[i] = e /\ \A j \in 1..(i - 1) : trace[j] # e
Last(e) == CHOOSE i \in 1..Len(trace) : trace[i] = e /\ \A j \in (i + 1)..Len(trace) : trace[j] # e

\* whenever b has happened, a has happened, and for the last time before the first b
Before(a, b) == Occurs(b) => Occurs(a) /\ Last(a) < First(b)

CellIdx(kind) == CHOOSE i \in 1..NumCells : Cells(nb)[i].kind = kind
RunIdx == CellIdx("run")
ConfigWriteIdx ==
    CHOOSE i \in 1..NumCells : Cells(nb)[i].kind = "write" /\ Cells(nb)[i].obj = "configuration"

RLNotebooks == Notebooks \ {"Sampling"}

\* C1: in every notebook run in document order, the configuration file is
\* completely written and closed before the tool is launched, the tool is
\* launched before its output is written to run.err or parsed, and parsing
\* comes before anything is displayed.
C1_Order ==
    /\ tool.state # "notstarted" =>
          /\ fh = <<>>
          /\ IsFile(fs, tool.arg)
          /\ LET c == Cells(nb)[ConfigWriteIdx]
             IN  /\ tool.arg = ns[c.path].str
                 /\ fs.files[tool.arg] = dump(ns[c.obj], c.indent, c.sort_keys)
    /\ Before("closed:configuration", "launch")
    /\ Before("launch", "run.err")
    /\ Before("launch", "parse")
    /\ Before("exit", "run.err")
    /\ nb \in RLNotebooks => Before("parse", "display")
    /\ Before("run.err", "display")

\* an RL notebook run to its end, with printed blocks
C1_Witness ==
    /\ Finished /\ nb = "DRD2"
    /\ Occurs("parse") /\ Occurs("display")
    /\ Len(out) > 1

\* C2: a complete run launches the tool exactly once, and no cell after the
\* launching cell starts before the tool process has terminated: while the
\* process runs the kernel stays in the launching cell, for as long as it takes.
C2_LaunchOnce ==
    /\ launches = (IF tool.state = "notstarted" THEN 0 ELSE 1)
    /\ tool.state = "running" => status = "running" /\ pc = RunIdx
    /\ pc > RunIdx => tool.state = "exited" /\ launches = 1
    /\ Finished => launches = 1

\* a complete run
C2_Witness == Finished /\ launches = 1 /\ tool.state = "exited" /\ nb = "Sampling"

\* the folders the setup cell creates
SetupDirs(n) == CellBody(n, 1, [ns |-> EmptyNs, fs |-> FreshFs, exc |-> ""]).fs.dirs \ FreshFs.dirs

\* a step that executes the setup cell
SetupStep == setupRuns' = setupRuns + 1

\* C3: a setup cell that finds its output folders existing as directories
\* completes without error and leaves the file system as it was; no run of
\* it removes a directory or touches a file or fails on an existing
\* directory; the names it binds do not depend on what exists; and running
\* it again after it completed changes nothing.
C3_ExistingDir ==
    [][SetupStep =>
         /\ fs'.files = fs.files
         /\ fs.dirs \subseteq fs'.dirs
         /\ fs'.readonly = fs.readonly
         /\ exc' # "FileExistsError"
         /\ SetupDirs(nb) \subseteq fs.dirs =>
               /\ status' = "idle"
               /\ exc' = ""
               /\ fs' = fs
         /\ status' = "idle" =>
               ns' = CellBody(nb, 1, [ns |-> ns, fs |-> FreshFs, exc |-> ""]).ns
         /\ setupRuns >= 1 =>
               /\ status' = "idle"
               /\ fs' = fs
               /\ ns' = ns]_vars

\* the setup cell was run again on the folders of an earlier run of the notebook
C3_Witness ==
    /\ setupRuns = 2 /\ status = "idle" /\ pc = 2
    /\ SetupDirs(nb) \subseteq fs.dirs
    /\ IsFile(fs, OutputDir(nb) \o <<"run.err">>)
    /\ fs.files[OutputDir(nb) \o <<"run.err">>] = StaleLines

\* os.mkdir(d) would fail for a reason other than d existing
MkdirFails(d) ==
    /\ mkdir(fs, d).exc \notin {"", "FileExistsError"}
    /\ dirname(d) \in SetupDirs(nb) => IsDir(fs, dirname(d))

C5_ConfigKeys ==
    (nb \in RLNotebooks /\ status = "opened" /\ Cell.obj = "configuration") =>
        LET c == ns["configuration"]
        IN  /\ IsDict(c)
            /\ {"version", "run_type", "logging", "parameters"} \subseteq Keys(c)
            /\ IsDict(GetItem(c, "parameters"))
            /\ {"scoring_function", "diversity_filter", "inception",
                "reinforcement_learning"} \subseteq Keys(GetItem(c, "parameters"))

\* the DRD2 configuration is being written
C5_Witness == nb = "DRD2" /\ status = "opened" /\ Cell.obj = "configuration"

\* number of bools equal to b inside a value
RECURSIVE CountBool(_, _)
CountBool(v, b) ==
    IF IsBool(v) THEN (IF v.bool = b THEN 1 ELSE 0)
    ELSE IF IsList(v) THEN
        LET RECURSIVE Sum(_)
            Sum(i) == IF i = 0 THEN 0 ELSE CountBool(v.list[i], b) + Sum(i - 1)
        IN  Sum(Len(v.list))
    ELSE IF IsDict(v) THEN
        LET RECURSIVE Sum(_)
            Sum(i) == IF i = 0 THEN 0 ELSE CountBool(v.dict[i].val, b) + Sum(i - 1)
        IN  Sum(Len(v.dict))
    ELSE 0

CountTok(text, t) == Cardinality({i \in 1..Len(text) : text[i].tok = t})

\* the write cells that have completed
Written == {i \in 1..NumCells : i < pc /\ Cells(nb)[i].kind = "write"}

\* C6: a file written by a notebook reads back as JSON to a structure equal
\* to the dictionary that was dumped (strings, numbers, list order and
\* nested blocks included), and its true/false literals are the dictionary's
\* True/False values.
C6_RoundTrip ==
    \A i \in Written :
        LET c == Cells(nb)[i]
            text == fs.files[ns[c.path].str]
            r == load(text)
        IN  /\ r.ok
            /\ PyEq(r.value, ns[c.obj])
            /\ CountTok(text, "true") = CountBool(ns[c.obj], TRUE)
            /\ CountTok(text, "false") = CountBool(ns[c.obj], FALSE)

\* both files of the DockStream notebook are written; the docking
\* configuration holds a False, lists and nested blocks
C6_Witness ==
    /\ nb = "DockStream" /\ Cardinality(Written) = 2
    /\ CountBool(ns["ed_dict"], FALSE) > 0
    /\ CountTok(fs.files[ns["docking_configuration_path"].str], "false") > 0

\* the blocks printed by the print cell
Printed == SelectSeq(out, LAMBDA o : o.cell = "print")

\* block shows the summary of step k
Shows(block, k) == \E i \in 1..Len(block.lines) : block.lines[i].text = StepText(k)

\* the print cell has run after a run that went through all configured steps
PrintedCompleteRun ==
    /\ pc > CellIdx("print")
    /\ tool.stdout # <<>>
    /\ tool.stdout[Len(tool.stdout)].text = StepText(NSteps(ns["configuration"]) - 1)

\* C7: in the Exploration, Selectivity and Tanimoto notebooks the three
\* printed blocks are the first epoch, an epoch from the middle and the
\* last epoch (step n_steps - 1) of the configured run.
C7_FirstMiddleLast ==
    (nb \in {"Exploration", "Selectivity", "Tanimoto"} /\ PrintedCompleteRun) =>
        LET n == NSteps(ns["configuration"])
        IN  /\ Len(Printed) = 3
            /\ Shows(Printed[1], 0)
            /\ \E k \in 1..(n - 2) : Shows(Printed[2], k)
            /\ Shows(Printed[3], n - 1)

\* C8: in the DRD2 notebook (n_steps = 300) the three printed blocks are the
\* outputs of epochs 1, 150 and 299, whether epochs are counted like the
\* tool's steps (from 0) or from 1.
C8_Epochs_1_150_299 ==
    (nb = "DRD2" /\ PrintedCompleteRun) =>
        /\ NSteps(ns["configuration"]) = 300
        /\ Len(Printed) = 3
        /\ \E base \in {0, 1} :
              /\ Shows(Printed[1], 1 - base)
              /\ Shows(Printed[2], 150 - base)
              /\ Shows(Printed[3], 299 - base)

\* C9: in the DockStream notebook (2 epochs, logging at every step) the
\* print cell prints the block of the first epoch and nothing else.
C9_FirstEpochOnly ==
    (nb = "DockStream" /\ PrintedCompleteRun) =>
        /\ NSteps(ns["configuration"]) = 2
        /\ GetItem(GetItem(ns["configuration"], "logging"), "logging_frequency") = PyInt(1)
        /\ Len(Printed) = 1
        /\ Shows(Printed[1], 0)

\* C10: in the Selectivity, Tanimoto and DockStream notebooks, whose text
\* says that 125 epochs were specified, the written configuration has
\* parameters.reinforcement_learning.n_steps = 125.
C10_NSteps125 ==
    (nb \in {"Selectivity", "Tanimoto", "DockStream"} /\ pc > ConfigWriteIdx) =>
        LET r == load(fs.files[ns["configuration_JSON_path"].str])
        IN  r.ok /\ NSteps(r.value) = 125

\* the configuration as read back from the file the notebook wrote
WrittenConfig == load(fs.files[ns["configuration_JSON_path"].str]).value

\* C11: the configuration written by the Sampling notebook has run_type
\* "sampling", no scoring_function, diversity_filter, inception or
\* reinforcement_learning entry, and a parameters block with exactly
\* model_path, output_smiles_path, num_smiles, batch_size and with_likelihood.
C11_SamplingConfig ==
    (nb = "Sampling" /\ pc > ConfigWriteIdx) =>
        LET c == WrittenConfig
            p == GetItem(c, "parameters")
            rl == {"scoring_function", "diversity_filter", "inception", "reinforcement_learning"}
        IN  /\ GetItem(c, "run_type") = PyStr(<<"sampling">>)
            /\ IsDict(p)
            /\ Keys(p) = {"model_path", "output_smiles_path", "num_smiles",
                          "batch_size", "with_likelihood"}
            /\ Keys(c) \cap rl = {}
            /\ Keys(p) \cap rl = {}

\* the Sampling notebook has written its configuration
C11_Witness ==
    /\ nb = "Sampling" /\ pc = ConfigWriteIdx + 1 /\ status = "idle"
    /\ IsFile(fs, ns["configuration_JSON_path"].str)
    /\ Keys(WrittenConfig) = {"version", "run_type", "logging", "parameters"}

\* C12: a notebook run in document order gets to the launch unless a file
\* operation fails; once the tool process has ended, whatever it printed and
\* whatever its exit status, the notebook finishes its last cell; and as
\* long as the process has not ended the notebook is not past the launching cell.
C12_Termination ==
    /\ <>(status = "error" \/ tool.state = "running")
    /\ (tool.state = "exited") ~> Finished
    /\ [](tool.state # "exited" => pc <= RunIdx)

\* a notebook finished although the tool failed at start
C12_Witness ==
    /\ Finished /\ nb = "Tanimoto"
    /\ tool.code = 1 /\ tool.stdout = <<TracebackLine>>

\* C13: the configuration the Exploration notebook writes names the
\* diversity filter that disables filtering ("NoFilter").
C13_NoDiversityFilter ==
    (nb = "Exploration" /\ pc > ConfigWriteIdx) =>
        GetItem(GetItem(GetItem(WrittenConfig, "parameters"), "diversity_filter"), "name")
            = PyStr(<<"NoFilter">>)

\* the components of the scoring function of configuration c
Components(c) ==
    GetItem(GetItem(GetItem(c, "parameters"), "scoring_function"), "parameters").list

\* the positions of the components of type t
OfType(c, t) ==
    {i \in 1..Len(Components(c)) : GetItem(Components(c)[i], "component_type") = PyStr(<<t>>)}

Weight(c, i) == GetItem(Components(c)[i], "weight").int

\* C14: in the configurations the Exploration and Selectivity notebooks
\* write, the one predictive_property component is "Aurora kinase" and its
\* weight is greater than the weight of every other component; Selectivity
\* has a selectivity component, of lower weight.
C14_AuroraWeightHighest ==
    (nb \in {"Exploration", "Selectivity"} /\ pc > ConfigWriteIdx) =>
        /\ \E a \in OfType(WrittenConfig, "predictive_property") :
              /\ OfType(WrittenConfig, "predictive_property") = {a}
              /\ GetItem(Components(WrittenConfig)[a], "name") = PyStr(<<"Aurora kinase">>)
              /\ \A i \in 1..Len(Components(WrittenConfig)) :
                    i # a => Weight(WrittenConfig, i) < Weight(WrittenConfig, a)
        /\ nb = "Selectivity" => OfType(WrittenConfig, "selectivity") # {}

\* the Selectivity configuration is written, with its four components
C14_Witness ==
    /\ nb = "Selectivity" /\ pc = ConfigWriteIdx + 1 /\ status = "idle"
    /\ Len(Components(WrittenConfig)) = 4
    /\ \E s \in OfType(WrittenConfig, "selectivity") : Weight(WrittenConfig, s) = 3

Transformation(c, i) ==
    GetItem(GetItem(Components(c)[i], "specific_parameters"), "transformation")

IsStep(t, low, high) ==
    /\ GetItem(t, "transformation_type") = PyStr(<<"step">>)
    /\ GetItem(t, "low") = PyInt(low)
    /\ GetItem(t, "high") = PyInt(high)

\* C15: the scoring function the DRD2 notebook writes has four components:
\* the activity model, the custom alerts, the hydrogen-bond donors with a
\* step transformation from 0 to 6 and the rotatable bonds with a step
\* transformation from 0 to 9.
C15_DRD2Limits ==
    (nb = "DRD2" /\ pc > ConfigWriteIdx) =>
        /\ Len(Components(WrittenConfig)) = 4
        /\ \A t \in {"predictive_property", "custom_alerts", "num_hbd_lipinski",
                     "num_rotatable_bonds"} : Cardinality(OfType(WrittenConfig, t)) = 1
        /\ \A i \in OfType(WrittenConfig, "num_hbd_lipinski") :
              IsStep(Transformation(WrittenConfig, i), 0, 6)
        /\ \A i \in OfType(WrittenConfig, "num_rotatable_bonds") :
              IsStep(Transformation(WrittenConfig, i), 0, 9)

\* the DRD2 configuration is written and the tool ran on it
C15_Witness ==
    /\ nb = "DRD2" /\ Finished
    /\ OfType(WrittenConfig, "num_hbd_lipinski") = {2}
    /\ OfType(WrittenConfig, "num_rotatable_bonds") = {3}

\* the notebooks whose parsing cell selects blocks by position
Selecting == {"Exploration", "Selectivity", "Tanimoto", "DRD2"}

\* the positions the cell of notebook n names
FixedIndices(n) == IF n = "DRD2" THEN {1, 150, 299} ELSE {1, 75, 124}

\* C16: after the parsing cell, list_epochs holds the regex matches of the
\* captured output and data holds, in log order, the blocks at the
\* zero-based positions 1, 75, 124 (DRD2: 1, 150, 299) that exist in
\* list_epochs, each without its last line; the match at position 0 is not
\* among them, there are at most three, and a log with fewer matches makes
\* the cell raise nothing.
C16_FixedPositions ==
    /\ (nb \in Selecting /\ pc > CellIdx("post")) =>
          LET L == ns["list_epochs"]
              D == ns["data"]
              K == {k \in FixedIndices(nb) : k < Len(L)}
          IN  /\ L = findall(ns["captured_err_stream"].stdout)
              /\ Len(D) = Cardinality(K)
              /\ Len(D) <= 3
              /\ 0 \notin K
              /\ \A k \in K : D[Cardinality({j \in K : j < k}) + 1] = DropLastLine(L[k + 1])
    /\ (nb \in Selecting /\ pc = CellIdx("post") /\ status = "error") =>
          exc \in {"IsADirectoryError", "NotADirectoryError", "FileNotFoundError",
                   "PermissionError"}

\* the parsing cell ran on a log too short for two of the three positions
C16_Witness ==
    /\ nb \in Selecting /\ pc > CellIdx("post") /\ status = "idle"
    /\ Len(ns["list_epochs"]) \in 2..75
    /\ Len(ns["data"]) = 1

RunErr == ns["output_dir"].str \o <<"run.err">>

\* the notebook has a cell that parses the captured output
Parses == Cells(nb)[CellIdx("post")].parse

ToolStep == tool.state = "running" /\ tool'.state = "exited"

\* the folders the setup cell of notebook n makes
OwnDirs(n) ==
    {OutputDir(n)} \cup
        (IF n = "DockStream"
         THEN {OutputDir(n) \o <<"docked_poses">>, OutputDir(n) \o <<"docking_scores">>}
         ELSE {})

\* the files the write cells name, and run.err
OwnFiles ==
    {ns'[Cells(nb)[i].path].str :
        i \in {j \in 1..NumCells : /\ Cells(nb)[j].kind = "write"
                                   /\ Cells(nb)[j].path \in DOMAIN ns'}}
        \cup {OutputDir(nb) \o <<"run.err">>}

\* the files created or changed by the step
Touched == {p \in DOMAIN fs'.files : p \notin DOMAIN fs.files \/ fs'.files[p] # fs.files[p]}

\* the results of the tool
ToolPaths ==
    {OutputDir(nb) \o <<"results">>, OutputDir(nb) \o <<"sampled">>,
     OutputDir(nb) \o <<"results", "memory.csv">>,
     OutputDir(nb) \o <<"results", "scaffold_memory.csv">>,
     OutputDir(nb) \o <<"sampled", "sampled.smi">>}

\* C18: a step of the notebook itself removes nothing, makes no folder but
\* the output folder (DockStream: and the two docking folders) and creates
\* or changes no file but the configuration files it writes and run.err;
\* the results and sampled folders, memory.csv, scaffold_memory.csv and
\* sampled.smi are left as they are.
C18_Frame ==
    [][~ToolStep =>
          /\ fs.dirs \subseteq fs'.dirs
          /\ DOMAIN fs.files \subseteq DOMAIN fs'.files
          /\ fs'.dirs \ fs.dirs \subseteq OwnDirs(nb)
          /\ Touched \subseteq OwnFiles
          /\ Cardinality(OwnFiles) <= (IF nb = "DockStream" THEN 3 ELSE 2)
          /\ ((fs'.dirs \ fs.dirs) \cup Touched) \cap ToolPaths = {}]_vars

\* the Sampling notebook finished and shows the file the tool made
C18_Witness ==
    /\ Finished /\ nb = "Sampling"
    /\ IsFile(fs, OutputDir(nb) \o <<"sampled", "sampled.smi">>)
    /\ fs.files[OutputDir(nb) \o <<"sampled", "sampled.smi">>] = ResultLines("sampled.smi")
    /\ Len(out) = 1 /\ out[1].lines = ResultLines("sampled.smi")

=============================================================================
